---- MODULE Spec2Model ----
(***************************************************************************)
(* Model of the download orchestrator of scripts/public_logs_downloader.py *)
(* (AdaptiveLimiter, resolve_hosts, and main's discovery, bucketing and    *)
(* per-host execution phases), of the actions of its tasks (download_file, *)
(* the ZRS KVP and VHFManager actions) and of download_contest_logs of     *)
(* scripts/download_vhfmanager_logs.py.                                    *)
(*                                                                         *)
(* Threads are modelled by program counters: main (mainPc), one discovery  *)
(* worker per selected provider (provPc), one thread per server bucket     *)
(* (bucketPc) and one pool worker per running task (taskPc).  A step of    *)
(* the model is one statement, or run of statements, whose effects no      *)
(* other thread can observe half-way: AdaptiveLimiter.release is two       *)
(* steps, because the semaphore it releases on line 180 is visible to      *)
(* acquire() (which takes no lock) before release() has returned.          *)
(***************************************************************************)
EXTENDS Integers, Sequences, FiniteSets, TLC

\* ------------------------------------------------------------------ bounds
\* Spec: largest number of tasks the providers of one run return in total.
\* SpecLimiter: the number of tasks run through the limiter.
MaxTasks == 3
\* SpecBucket: the number of tasks of the one bucket.
NumBucketTasks == 5
\* Largest value of --workers and --min-workers tried.
MaxWorkers == 2
\* The window of the limiters build_limiter creates.  The constructor's
\* default is 50 (line 149); the model scales it down so that a few tasks
\* complete a window.  It stays above 1, as 50 is: the release that follows
\* a shrink never completes a window.
DefaultWindow == 2
\* SpecLimiter: the constructor arguments initial, min_limit and max_limit
\* range over 0..MaxCfg, and window over 1..MaxCfgWindow.
MaxCfg == 2
MaxCfgWindow == 2
\* SpecAction: the number of times in a row the one task is run.
MaxRuns == 2

\* SpecCrawl: the number of URLs of the contest's site, the largest max_logs,
\* the longest seed list and the longest list of links found in one log.
MaxUrls == 3
MaxCap == 2
MaxSeeds == 2
MaxNewLinks == 2

\* SpecRelease: the number of release() calls made in all.
MaxCalls == 4

\* The default of download_file's and fetch_text's `retries` (lines 57, 75).
Retries == 3

\* ------------------------------------------------------------- input sets
\* The menu numbers selected for the run (keys of PROVIDERS).
Selections == {1, 2}
\* The order in which they were given (--contests 1,2).
SelectionOrder == <<1, 2>>
\* SpecDiscovery: every order in which they can be given.
SelectionOrders == {<<1, 2>>, <<2, 1>>}
\* Hostnames the discovered URLs point to.
Hosts == {"h1", "h2"}
\* Addresses dig may answer with.
Addrs == {"a1"}
\* The hostnames the pages of provider p link to: every provider scrapes one
\* site, and two providers may share a site (ZRS KVP and VHFManager do).
ProviderHosts(p) == IF p = 1 THEN {"h1"} ELSE Hosts

\* A failure-rate threshold is a fraction <<numerator, denominator>>.
\* up_threshold = 0.01, down_threshold = 0.05 (lines 150-151).
DefaultUpThreshold == <<1, 100>>
DefaultDownThreshold == <<1, 20>>
\* SpecLimiter: <<up_threshold, down_threshold>> pairs tried, the defaults,
\* two pairs with a band between the two (a window of two with one failure
\* has the rate down_threshold of the first and up_threshold of the second),
\* and a pair with up above down.
CfgThresholds ==
    { <<DefaultUpThreshold, DefaultDownThreshold>>,
      <<(<<1, 4>>), (<<1, 2>>)>>,
      <<(<<1, 2>>), (<<3, 4>>)>>,
      <<(<<3, 4>>), (<<1, 4>>)>> }

\* Task identities: the k-th task returned by provider p has dest <<p, k>>.
TaskIds == Selections \X (1..(IF MaxTasks >= NumBucketTasks THEN MaxTasks ELSE NumBucketTasks))
BucketIdx == 1..MaxTasks

VARIABLES
    workers,            \* args.workers
    min_workers,        \* args.min_workers
    adaptive_enabled,   \* not args.no_adaptive
    selections,         \* the selected menu numbers, in the order given
    mainPc,             \* position of the main thread
    provPc,             \* provider -> position of its discovery future
    provTasks,          \* provider -> the task list its function returned
    discovery_results,  \* provider -> number of tasks recorded, -1 if absent
    all_tasks,          \* the flat task list
    report,             \* the lines of the discovery report: <<sel, count>>
    resolved,           \* host -> list of addresses (dict of resolve_hosts)
    server_buckets,     \* list of [key, tasks] in dict insertion order
    bucketPc,           \* bucket index -> position of its thread
    limiter,            \* bucket index -> its AdaptiveLimiter, or None
    taskPc,             \* task -> position of wrapped_task
    success,            \* task -> the local `success` of wrapped_task
    invoked,            \* task -> number of times task.action() was called
    events,             \* task -> log of what wrapped_task did, in order
    dl,                 \* one task action followed step by step (SpecAction)
    crawl,              \* one call of download_contest_logs (SpecCrawl)
    rel                 \* release() statement by statement (SpecRelease)

vars == <<workers, min_workers, adaptive_enabled, selections, report, mainPc, provPc, provTasks,
          discovery_results, all_tasks, resolved, server_buckets, bucketPc,
          limiter, taskPc, success, invoked, events, dl, crawl, rel>>

argVars == <<workers, min_workers, adaptive_enabled, selections>>
discoveryVars == <<provPc, provTasks, discovery_results, all_tasks>>
bucketVars == <<resolved, server_buckets>>
taskVars == <<taskPc, success, invoked, events>>

\* ------------------------------------------------------- AdaptiveLimiter
None == [kind |-> "None"]

Max(a, b) == IF a >= b THEN a ELSE b
Min(a, b) == IF a <= b THEN a ELSE b

\* fail / total > th  and  fail / total < th, for a threshold th = <<n, d>>.
RateAbove(fail, total, th) == fail * th[2] > th[1] * total
RateBelow(fail, total, th) == fail * th[2] < th[1] * total

\* __init__
AdaptiveLimiter(initial, min_limit, max_limit, window, up_threshold, down_threshold) ==
    [kind |-> "AdaptiveLimiter",
     sema |-> initial,
     limit |-> initial,
     min |-> min_limit,
     max |-> max_limit,
     window |-> window,
     up_threshold |-> up_threshold,
     down_threshold |-> down_threshold,
     succ |-> 0,
     fail |-> 0,
     debt |-> 0,
     lock |-> FALSE]

\* acquire(): self._sema.acquire() blocks while the semaphore is 0.
CanAcquire(L) == L.sema > 0
acquire(L) == [L EXCEPT !.sema = @ - 1]

\* Mutant of release_enter: the debt is consumed and the permit returned too.
release_enter_keeps_permit(L, ok) ==
    LET C == IF ok THEN [L EXCEPT !.succ = @ + 1] ELSE [L EXCEPT !.fail = @ + 1]
    IN IF C.debt > 0
       THEN [C EXCEPT !.debt = @ - 1, !.sema = @ + 1]
       ELSE [C EXCEPT !.sema = @ + 1, !.lock = TRUE]

\* release(), lines 169-180: take the lock, count the outcome, then either
\* consume one unit of debt and return (lock released), or release the
\* semaphore and go on to the window check with the lock held.
release_enter(L, ok) ==
    LET C == IF ok THEN [L EXCEPT !.succ = @ + 1] ELSE [L EXCEPT !.fail = @ + 1]
    IN IF C.debt > 0
       THEN [C EXCEPT !.debt = @ - 1]
       ELSE [C EXCEPT !.sema = @ + 1, !.lock = TRUE]

\* Mutants of release_window: the shrink without its `limit > min` test,
\* the shrink without its debt, the growth without its extra permit.
release_window_unbounded(L) ==
    LET total == L.succ + L.fail
        U == [L EXCEPT !.lock = FALSE]
    IN IF total >= L.window
       THEN LET A == IF RateAbove(L.fail, total, L.down_threshold)
                     THEN [U EXCEPT !.limit = @ - 1, !.debt = @ + 1]
                     ELSE IF RateBelow(L.fail, total, L.up_threshold) /\ L.limit < L.max
                          THEN [U EXCEPT !.limit = @ + 1, !.sema = @ + 1]
                          ELSE U
            IN [A EXCEPT !.succ = 0, !.fail = 0]
       ELSE U

release_window_no_debt(L) ==
    LET total == L.succ + L.fail
        U == [L EXCEPT !.lock = FALSE]
    IN IF total >= L.window
       THEN LET A == IF RateAbove(L.fail, total, L.down_threshold) /\ L.limit > L.min
                     THEN [U EXCEPT !.limit = @ - 1]
                     ELSE IF RateBelow(L.fail, total, L.up_threshold) /\ L.limit < L.max
                          THEN [U EXCEPT !.limit = @ + 1, !.sema = @ + 1]
                          ELSE U
            IN [A EXCEPT !.succ = 0, !.fail = 0]
       ELSE U

release_window_no_extra(L) ==
    LET total == L.succ + L.fail
        U == [L EXCEPT !.lock = FALSE]
    IN IF total >= L.window
       THEN LET A == IF RateAbove(L.fail, total, L.down_threshold) /\ L.limit > L.min
                     THEN [U EXCEPT !.limit = @ - 1, !.debt = @ + 1]
                     ELSE IF RateBelow(L.fail, total, L.up_threshold) /\ L.limit < L.max
                          THEN [U EXCEPT !.limit = @ + 1]
                          ELSE U
            IN [A EXCEPT !.succ = 0, !.fail = 0]
       ELSE U

\* Mutant of release_window: the thresholds themselves trigger (>=, <=).
release_window_inclusive(L) ==
    LET total == L.succ + L.fail
        U == [L EXCEPT !.lock = FALSE]
    IN IF total >= L.window
       THEN LET A == IF ~RateBelow(L.fail, total, L.down_threshold) /\ L.limit > L.min
                     THEN [U EXCEPT !.limit = @ - 1, !.debt = @ + 1]
                     ELSE IF ~RateAbove(L.fail, total, L.up_threshold) /\ L.limit < L.max
                          THEN [U EXCEPT !.limit = @ + 1, !.sema = @ + 1]
                          ELSE U
            IN [A EXCEPT !.succ = 0, !.fail = 0]
       ELSE U

\* Mutant of release_window: the counters are reset only after an adjustment.
release_window_reset_if_adjusted(L) ==
    LET total == L.succ + L.fail
        U == [L EXCEPT !.lock = FALSE]
    IN IF total >= L.window
       THEN IF RateAbove(L.fail, total, L.down_threshold) /\ L.limit > L.min
            THEN [U EXCEPT !.limit = @ - 1, !.debt = @ + 1, !.succ = 0, !.fail = 0]
            ELSE IF RateBelow(L.fail, total, L.up_threshold) /\ L.limit < L.max
                 THEN [U EXCEPT !.limit = @ + 1, !.sema = @ + 1, !.succ = 0, !.fail = 0]
                 ELSE U
       ELSE U

\* release(), lines 182-200: the window check, then the lock is released.
release_window(L) ==
    LET total == L.succ + L.fail
        U == [L EXCEPT !.lock = FALSE]
    IN IF total >= L.window
       THEN LET A == IF RateAbove(L.fail, total, L.down_threshold) /\ L.limit > L.min
                     THEN [U EXCEPT !.limit = @ - 1, !.debt = @ + 1]
                     ELSE IF RateBelow(L.fail, total, L.up_threshold) /\ L.limit < L.max
                          THEN [U EXCEPT !.limit = @ + 1, !.sema = @ + 1]
                          ELSE U
            IN [A EXCEPT !.succ = 0, !.fail = 0]
       ELSE U

\* Mutant of build_limiter: min_limit passed as max_limit.
build_limiter_swapped(w, mw, adaptive) ==
    IF ~adaptive
    THEN None
    ELSE LET max_limit == Max(1, w)
             min_limit == Max(1, Min(mw, max_limit))
         IN AdaptiveLimiter(max_limit, min_limit, min_limit, DefaultWindow,
                            DefaultUpThreshold, DefaultDownThreshold)

\* Mutant of build_limiter: the arguments are passed on without clamping.
build_limiter_unclamped(w, mw, adaptive) ==
    IF ~adaptive
    THEN None
    ELSE AdaptiveLimiter(w, mw, w, DefaultWindow,
                         DefaultUpThreshold, DefaultDownThreshold)

\* build_limiter, lines 717-723.
build_limiter(w, mw, adaptive) ==
    IF ~adaptive
    THEN None
    ELSE LET max_limit == Max(1, w)
             min_limit == Max(1, Min(mw, max_limit))
         IN AdaptiveLimiter(max_limit, min_limit, max_limit, DefaultWindow,
                            DefaultUpThreshold, DefaultDownThreshold)

\* ------------------------------------------------------------- helpers
Range(f) == {f[i] : i \in DOMAIN f}

RECURSIVE SumLen(_, _)
SumLen(f, S) ==
    IF S = {} THEN 0
    ELSE LET p == CHOOSE x \in S : TRUE IN Len(f[p]) + SumLen(f, S \ {p})

\* The host lists provider p may return: 0..n tasks on one of its hosts.
ProviderOutputs(p, n) == {[i \in 1..k |-> h] : h \in ProviderHosts(p), k \in 0..n}

\* DownloadTask: dest identifies the output file, source is the provider.
DownloadTask(dest, host, source) == [dest |-> dest, host |-> host, source |-> source]

\* ---------------------------------------------------------- resolve_hosts
\* What `dig +short host` does: raises, or prints a list of addresses.
DigOutcomes ==
    {[raises |-> TRUE, ips |-> <<>>], [raises |-> FALSE, ips |-> <<>>]}
    \cup {[raises |-> FALSE, ips |-> <<a>>] : a \in Addrs}

EmptyDict == [h \in {} |-> <<>>]

\* resolve_hosts(hosts): dig_found is FALSE when the probe call on line 112
\* raises FileNotFoundError; answers gives dig's outcome for each host.
resolve_hosts(hosts, dig_found, answers) ==
    IF ~dig_found
    THEN EmptyDict
    ELSE [h \in hosts |->
            IF h = "" \/ h = "unknown" THEN <<>>
            ELSE IF answers[h].raises THEN <<>>
            ELSE answers[h].ips]

\* ------------------------------------------------------- server_buckets
\* Mutant of BucketKey: unresolved tasks are keyed by "unresolved" alone.
BucketKey_shared(task, res) ==
    LET ips == IF task.host \in DOMAIN res THEN res[task.host] ELSE <<>>
    IN IF ips # <<>> THEN <<task.host, ips[1]>> ELSE <<"unresolved", "unresolved">>

\* key = (task.host, ip), lines 698-700.
BucketKey(task, res) ==
    LET ips == IF task.host \in DOMAIN res THEN res[task.host] ELSE <<>>
        ip == IF ips # <<>> THEN ips[1] ELSE "unresolved"
    IN <<task.host, ip>>

\* Mutant of AppendToBucket: the list of an existing key is replaced by
\* [task] instead of being appended to.
AppendToBucket_overwrite(buckets, key, task) ==
    IF \E i \in DOMAIN buckets : buckets[i].key = key
    THEN [i \in DOMAIN buckets |->
            IF buckets[i].key = key
            THEN [buckets[i] EXCEPT !.tasks = <<task>>]
            ELSE buckets[i]]
    ELSE Append(buckets, [key |-> key, tasks |-> <<task>>])

\* server_buckets.setdefault(key, []).append(task), line 701.
AppendToBucket(buckets, key, task) ==
    IF \E i \in DOMAIN buckets : buckets[i].key = key
    THEN [i \in DOMAIN buckets |->
            IF buckets[i].key = key
            THEN [buckets[i] EXCEPT !.tasks = Append(@, task)]
            ELSE buckets[i]]
    ELSE Append(buckets, [key |-> key, tasks |-> <<task>>])

\* The loop of lines 696-701 over the first n tasks.
RECURSIVE BuildBuckets(_, _, _)
BuildBuckets(tasks, res, n) ==
    IF n = 0 THEN <<>>
    ELSE AppendToBucket(BuildBuckets(tasks, res, n - 1),
                        BucketKey(tasks[n], res), tasks[n])

\* The dests of the tasks of bucket b, in submission order.
BucketDests(b) == [i \in DOMAIN server_buckets[b].tasks |-> server_buckets[b].tasks[i].dest]
BucketTasks(b) == IF b \in DOMAIN server_buckets THEN Range(BucketDests(b)) ELSE {}
BucketOf(t) == CHOOSE b \in DOMAIN server_buckets : t \in BucketTasks(b)
Buckets == DOMAIN server_buckets

\* ------------------------------------------------ the actions of tasks
\* The orchestrator sees task.action() as a call that returns or raises.
\* What the actions the providers build do to their destination file is
\* followed in SpecAction, on one task run MaxRuns times in a row:
\*   kind     which action: download_file, the ZRS KVP or the VHFManager one
\*   run      number of the current run
\*   pc       position in the action
\*   attempt  loop variable of download_file
\*   fs       the destination file: absent, partial (opened for writing, the
\*            content not fully written) or complete
\*   had      whether the destination existed when the current run began
\*   net      fetches (urlopen calls) made by the current run
ActionKinds == {"http", "zrs_kvp", "vhfmanager"}
NoAction == [kind |-> "none", run |-> 0, pc |-> "idle", attempt |-> 0,
             fs |-> "absent", had |-> FALSE, net |-> 0]

\* ------------------------------------------- download_contest_logs
\* scripts/download_vhfmanager_logs.py, lines 431-510: the crawl of one
\* contest, whose workers return the check-log links found in each log.
\* URLs stand for normalized URLs (normalize_log_url); ForeignUrl is a URL
\* whose contest id is not the contest's (contest_id_from_url).
Urls == 1..MaxUrls
ForeignUrl == 0
AllUrls == Urls \cup {ForeignUrl}
\* max_logs is None, written -1 here, or an integer from 0 up.
NoCap == -1
Caps == {NoCap} \cup (0..MaxCap)
\* `if max_logs`: None and 0 are false.
Truthy(max_logs) == max_logs # NoCap /\ max_logs # 0

\* seed_links: any list of up to n URLs, repeats included.
LinkLists(n) == UNION {[1..k -> AllUrls] : k \in 0..n}

\* The elements of a set of URLs as a list, in ascending order.
RECURSIVE Ascending(_)
Ascending(S) ==
    IF S = {} THEN <<>>
    ELSE LET m == CHOOSE x \in S : \A y \in S : x <= y
         IN <<m>> \o Ascending(S \ {m})

\* What a worker may return: the links of a log page, up to n of them.
FoundLinks(n) == {Ascending(S) : S \in {T \in SUBSET AllUrls : Cardinality(T) <= n}}

\* Lines 438-447: the seeds without duplicates and foreign URLs, in order.
RECURSIVE dedupe_seeds(_, _)
dedupe_seeds(seed_links, n) ==
    IF n = 0 THEN <<>>
    ELSE LET pending == dedupe_seeds(seed_links, n - 1)
             url == seed_links[n]
         IN IF url \in Range(pending) THEN pending
            ELSE IF url = ForeignUrl THEN pending
            ELSE Append(pending, url)

\* Mutant of add_new_links: no test of `url in seen`.
RECURSIVE add_new_links_no_seen(_, _, _)
add_new_links_no_seen(c, new_links, i) ==
    IF i > Len(new_links) THEN c
    ELSE IF Truthy(c.max_logs) /\ Cardinality(c.seen) >= c.max_logs THEN c
    ELSE LET url == new_links[i]
         IN IF url = ForeignUrl
            THEN add_new_links_no_seen(c, new_links, i + 1)
            ELSE add_new_links_no_seen([c EXCEPT !.seen = @ \cup {url},
                                                !.pending = Append(@, url)],
                                       new_links, i + 1)

\* Mutant of add_new_links: no test of max_logs.
RECURSIVE add_new_links_uncapped(_, _, _)
add_new_links_uncapped(c, new_links, i) ==
    IF i > Len(new_links) THEN c
    ELSE LET url == new_links[i]
         IN IF url \in c.seen \/ url = ForeignUrl
            THEN add_new_links_uncapped(c, new_links, i + 1)
            ELSE add_new_links_uncapped([c EXCEPT !.seen = @ \cup {url},
                                                 !.pending = Append(@, url)],
                                        new_links, i + 1)

\* Lines 499-508: the loop over new_links, from its i-th element on.
RECURSIVE add_new_links(_, _, _)
add_new_links(c, new_links, i) ==
    IF i > Len(new_links) THEN c
    ELSE IF Truthy(c.max_logs) /\ Cardinality(c.seen) >= c.max_logs THEN c
    ELSE LET url == new_links[i]
         IN IF url \in c.seen \/ url = ForeignUrl
            THEN add_new_links(c, new_links, i + 1)
            ELSE add_new_links([c EXCEPT !.seen = @ \cup {url},
                                        !.pending = Append(@, url)],
                               new_links, i + 1)

\* The state when the with block is entered (line 479), lines 438-478.
crawl_begin(seed_links, w, max_logs, include_checklogs) ==
    LET deduped == dedupe_seeds(seed_links, Len(seed_links))
        pending == IF Truthy(max_logs)
                   THEN SubSeq(deduped, 1, Min(max_logs, Len(deduped)))
                   ELSE deduped
    IN [pc |-> "fill",
        nseeds |-> Len(pending),
        workers |-> w,
        max_logs |-> max_logs,
        include_checklogs |-> include_checklogs,
        seen |-> Range(pending),
        pending |-> pending,
        running |-> {},
        finished |-> {},
        todo |-> {},
        submitted |-> {},
        nsubmitted |-> 0,
        downloaded |-> 0]

NoCrawl == [pc |-> "none"]

\* ----------------------------------------- release(), statement by statement
\* In the sections above a release() call is two steps, the second with the
\* lock held.  SpecRelease follows the pool workers of one bucket through
\* lines 168-200 one statement at a time, `self._succ += 1` being a read and
\* a write:
\*   L       the limiter
\*   pc      worker -> idle, held (in task.action(), permit held), or the
\*           statement of release() it is at
\*   ok      worker -> the `success` argument of its call
\*   tmp     worker -> the counter value it read on line 171 or 173
\*   total   worker -> its local `total` (line 174)
\*   calls   number of acquire() calls made
\* and records, for comparison,
\*   serial  the limiter obtained by running every call whole, one after the
\*           other, in the order in which the calls took the lock
\*   since   number of release() calls that took the lock since the counters
\*           were last reset
NoRelease == [calls |-> -1]

\* release(success) run from line 168 to its return with no other thread.
release(L, ok) ==
    LET E == release_enter(L, ok)
    IN IF E.lock THEN release_window(E) ELSE E

\* Mutant of LockFree: `with self._lock` does not wait.
LockFree_always(L) == TRUE

\* `with self._lock` (line 169) can be entered.
LockFree(L) == ~L.lock

\* In the with block of release().
InRelease == {"load", "store", "total", "debt", "window"}

\* ------------------------------------------------------------------ Init
\* The command lines tried: <<--workers, --min-workers, not --no-adaptive>>.
\* --min-workers is read only by build_limiter when adaptive is enabled.
ArgSets ==
    {a \in (1..MaxWorkers) \X (1..MaxWorkers) \X BOOLEAN : a[3] \/ a[2] = 1}

Init ==
    /\ \E a \in ArgSets : workers = a[1] /\ min_workers = a[2] /\ adaptive_enabled = a[3]
    /\ selections = SelectionOrder
    /\ mainPc = "discovery"
    /\ report = <<>>
    /\ provPc = [p \in Selections |-> "queued"]
    /\ provTasks = [p \in Selections |-> <<>>]
    /\ discovery_results = [p \in Selections |-> -1]
    /\ all_tasks = <<>>
    /\ resolved = EmptyDict
    /\ server_buckets = <<>>
    /\ bucketPc = [b \in BucketIdx |-> "none"]
    /\ limiter = [b \in BucketIdx |-> None]
    /\ taskPc = [t \in TaskIds |-> "none"]
    /\ success = [t \in TaskIds |-> FALSE]
    /\ invoked = [t \in TaskIds |-> 0]
    /\ events = [t \in TaskIds |-> <<>>]
    /\ dl = NoAction
    /\ crawl = NoCrawl
    /\ rel = NoRelease

\* ------------------------------------------------- discovery (663-687)
\* ThreadPoolExecutor(max_workers=max(1, min(len(selections), args.workers)))
DiscoveryPool == Max(1, Min(Cardinality(Selections), workers))

ProviderFinished(p) == provPc[p] \in {"returned", "raised", "collected"}

\* A discovery worker takes the next submitted run_provider call.
ProviderStart(p) ==
    /\ provPc[p] = "queued"
    /\ \A i, j \in DOMAIN selections :
          (selections[j] = p /\ i < j) => provPc[selections[i]] # "queued"
    /\ Cardinality({q \in Selections : provPc[q] = "running"}) < DiscoveryPool
    /\ provPc' = [provPc EXCEPT ![p] = "running"]
    /\ UNCHANGED <<argVars, dl, crawl, rel, report, mainPc, provTasks, discovery_results, all_tasks,
                   bucketVars, bucketPc, limiter, taskVars>>

\* fn(last_val) returns a task list.
ProviderReturn(p, hs) ==
    /\ provPc[p] = "running"
    /\ SumLen(provTasks, Selections) + Len(hs) <= MaxTasks
    /\ provTasks' = [provTasks EXCEPT
                       ![p] = [k \in DOMAIN hs |-> DownloadTask(<<p, k>>, hs[k], p)]]
    /\ provPc' = [provPc EXCEPT ![p] = "returned"]
    /\ UNCHANGED <<argVars, dl, crawl, rel, report, mainPc, discovery_results, all_tasks,
                   bucketVars, bucketPc, limiter, taskVars>>

\* fn(last_val) raises (fetch_text re-raises after its retries).
ProviderRaise(p) ==
    /\ provPc[p] = "running"
    /\ provPc' = [provPc EXCEPT ![p] = "raised"]
    /\ UNCHANGED <<argVars, dl, crawl, rel, report, mainPc, provTasks, discovery_results, all_tasks,
                   bucketVars, bucketPc, limiter, taskVars>>

\* Lines 674-678 for a future that returned: record it, extend all_tasks.
MainCollect(p) ==
    /\ mainPc = "discovery"
    /\ provPc[p] = "returned"
    /\ provPc' = [provPc EXCEPT ![p] = "collected"]
    /\ discovery_results' = [discovery_results EXCEPT ![p] = Len(provTasks[p])]
    /\ all_tasks' = all_tasks \o provTasks[p]
    /\ UNCHANGED <<argVars, dl, crawl, rel, report, mainPc, provTasks, bucketVars, bucketPc, limiter, taskVars>>

\* Line 675 for a future that raised: fut.result() re-raises in main; the
\* with block's exit then waits for the other providers (shutdown(wait=True)).
MainResultRaises(p) ==
    /\ mainPc = "discovery"
    /\ provPc[p] = "raised"
    /\ mainPc' = "discovery_unwind"
    /\ UNCHANGED <<argVars, dl, crawl, rel, report, discoveryVars, bucketVars, bucketPc, limiter, taskVars>>

\* The exception leaves main: the process ends with a traceback.
MainCrash ==
    /\ mainPc = "discovery_unwind"
    /\ \A p \in Selections : ProviderFinished(p)
    /\ mainPc' = "crashed"
    /\ UNCHANGED <<argVars, dl, crawl, rel, report, discoveryVars, bucketVars, bucketPc, limiter, taskVars>>

\* Mutant of discovery_report: the lines follow the order of selection.
discovery_report_unsorted(sels, results) ==
    [i \in DOMAIN sels |->
        <<sels[i], IF results[sels[i]] = -1 THEN 0 ELSE results[sels[i]]>>]

\* Lines 680-683: one line per sel in sorted(selections), with the count
\* recorded for it in discovery_results, 0 if there is none.
discovery_report(sels, results) ==
    LET order == SortSeq(sels, LAMBDA a, b : a < b)
    IN [i \in DOMAIN order |->
          <<order[i], IF results[order[i]] = -1 THEN 0 ELSE results[order[i]]>>]

\* Lines 680-687: the report, then no task found, return 1.
MainNoTasks ==
    /\ mainPc = "discovery"
    /\ \A p \in Selections : provPc[p] = "collected"
    /\ all_tasks = <<>>
    /\ report' = discovery_report(selections, discovery_results)
    /\ mainPc' = "nowork"
    /\ UNCHANGED <<argVars, dl, crawl, rel, discoveryVars, bucketVars, bucketPc, limiter, taskVars>>

\* ------------------------------------ report and bucketing (680-701)
hostnames == {all_tasks[i].host : i \in DOMAIN all_tasks}

\* Mutant of MainBucket: main does not wait for every provider (the
\* as_completed loop left after the first result).
MainBucket_early(dig_found, answers) ==
    /\ mainPc = "discovery"
    /\ all_tasks # <<>>
    /\ report' = discovery_report(selections, discovery_results)
    /\ resolved' = resolve_hosts(hostnames, dig_found, answers)
    /\ server_buckets' = BuildBuckets(all_tasks, resolved', Len(all_tasks))
    /\ mainPc' = "start"
    /\ UNCHANGED <<argVars, dl, crawl, rel, discoveryVars, bucketPc, limiter, taskVars>>

\* Lines 680-701 when there are tasks: the report, resolve_hosts, bucketing.
MainBucket(dig_found, answers) ==
    /\ mainPc = "discovery"
    /\ \A p \in Selections : provPc[p] = "collected"
    /\ all_tasks # <<>>
    /\ report' = discovery_report(selections, discovery_results)
    /\ resolved' = resolve_hosts(hostnames, dig_found, answers)
    /\ server_buckets' = BuildBuckets(all_tasks, resolved', Len(all_tasks))
    /\ mainPc' = "start"
    /\ UNCHANGED <<argVars, dl, crawl, rel, discoveryVars, bucketPc, limiter, taskVars>>

\* ------------------------------------------- execution (725-755)
\* Lines 745-750: main starts the thread of the next bucket.
MainStartThread(b) ==
    /\ mainPc = "start"
    /\ b \in Buckets
    /\ bucketPc[b] = "none"
    /\ \A c \in Buckets : c < b => bucketPc[c] # "none"
    /\ bucketPc' = [bucketPc EXCEPT ![b] = "started"]
    /\ mainPc' = IF b = Len(server_buckets) THEN "join" ELSE "start"
    /\ UNCHANGED <<argVars, dl, crawl, rel, report, discoveryVars, bucketVars, limiter, taskVars>>

\* process_host, lines 726-740: build the limiter, create the pool and
\* submit every task of the bucket.
ProcessHostBegin(b) ==
    /\ bucketPc[b] = "started"
    /\ workers >= 1
    /\ limiter' = [limiter EXCEPT ![b] = build_limiter(workers, min_workers, adaptive_enabled)]
    /\ taskPc' = [t \in TaskIds |-> IF t \in BucketTasks(b) THEN "queued" ELSE taskPc[t]]
    /\ bucketPc' = [bucketPc EXCEPT ![b] = "collect"]
    /\ UNCHANGED <<argVars, dl, crawl, rel, report, mainPc, discoveryVars, bucketVars, success, invoked, events>>

\* Tasks of bucket b that occupy a pool worker.
Active(b) == {t \in BucketTasks(b) : taskPc[t] \in {"acquire", "action", "release", "window"}}

\* ThreadPoolExecutor(max_workers=args.workers), line 739.
PoolSize == workers

\* A pool worker takes the next work item of the bucket's queue (FIFO).
TaskDequeue(t) ==
    /\ taskPc[t] = "queued"
    /\ LET b == BucketOf(t)
           d == BucketDests(b)
       IN /\ Cardinality(Active(b)) < PoolSize
          /\ \A i, j \in DOMAIN d : (d[j] = t /\ i < j) => taskPc[d[i]] # "queued"
    /\ taskPc' = [taskPc EXCEPT ![t] = "acquire"]
    /\ UNCHANGED <<argVars, dl, crawl, rel, report, mainPc, discoveryVars, bucketVars, bucketPc, limiter,
                   success, invoked, events>>

\* wrapped_task, lines 729-731.
TaskAcquire(t) ==
    /\ taskPc[t] = "acquire"
    /\ LET b == BucketOf(t) IN
         IF limiter[b] = None
         THEN UNCHANGED <<limiter, events>>
         ELSE /\ CanAcquire(limiter[b])
              /\ limiter' = [limiter EXCEPT ![b] = acquire(@)]
              /\ events' = [events EXCEPT ![t] = Append(@, "acquire")]
    /\ taskPc' = [taskPc EXCEPT ![t] = "action"]
    /\ UNCHANGED <<argVars, dl, crawl, rel, report, mainPc, discoveryVars, bucketVars, bucketPc, success, invoked>>

\* Lines 733-734: task.action() returns.
ActionReturn(t) ==
    /\ taskPc[t] = "action"
    /\ invoked' = [invoked EXCEPT ![t] = @ + 1]
    /\ success' = [success EXCEPT ![t] = TRUE]
    /\ events' = [events EXCEPT ![t] = @ \o <<"start", "returned">>]
    /\ taskPc' = [taskPc EXCEPT ![t] = "release"]
    /\ UNCHANGED <<argVars, dl, crawl, rel, report, mainPc, discoveryVars, bucketVars, bucketPc, limiter>>

\* Mutant of ActionRaise: no finally clause, the exception ends wrapped_task.
ActionRaise_no_finally(t) ==
    /\ taskPc[t] = "action"
    /\ invoked' = [invoked EXCEPT ![t] = @ + 1]
    /\ events' = [events EXCEPT ![t] = @ \o <<"start", "raised">>]
    /\ taskPc' = [taskPc EXCEPT ![t] = "done"]
    /\ UNCHANGED <<argVars, dl, crawl, rel, report, mainPc, discoveryVars, bucketVars, bucketPc, limiter, success>>

\* Line 733: task.action() raises; the finally clause runs next.
ActionRaise(t) ==
    /\ taskPc[t] = "action"
    /\ invoked' = [invoked EXCEPT ![t] = @ + 1]
    /\ events' = [events EXCEPT ![t] = @ \o <<"start", "raised">>]
    /\ taskPc' = [taskPc EXCEPT ![t] = "release"]
    /\ UNCHANGED <<argVars, dl, crawl, rel, report, mainPc, discoveryVars, bucketVars, bucketPc, limiter, success>>

\* Mutant of TaskRelease: the outcome is also counted in the limiters of the
\* other buckets (failure statistics shared between servers).
TaskRelease_shared(t) ==
    /\ taskPc[t] = "release"
    /\ LET b == BucketOf(t) IN
         IF limiter[b] = None
         THEN /\ UNCHANGED <<limiter, events>>
              /\ taskPc' = [taskPc EXCEPT ![t] = "done"]
         ELSE /\ ~limiter[b].lock
              /\ events' = [events EXCEPT
                              ![t] = Append(@, IF success[t] THEN "release_true" ELSE "release_false")]
              /\ limiter' = [c \in BucketIdx |->
                                IF c = b THEN release_enter(limiter[c], success[t])
                                ELSE IF limiter[c] = None THEN None
                                ELSE IF success[t] THEN [limiter[c] EXCEPT !.succ = @ + 1]
                                ELSE [limiter[c] EXCEPT !.fail = @ + 1]]
              /\ taskPc' = [taskPc EXCEPT
                              ![t] = IF limiter[b].debt > 0 THEN "done" ELSE "window"]
    /\ UNCHANGED <<argVars, dl, crawl, rel, report, mainPc, discoveryVars, bucketVars, bucketPc, success, invoked>>

\* Lines 735-737 and release() up to line 180.
TaskRelease(t) ==
    /\ taskPc[t] = "release"
    /\ LET b == BucketOf(t) IN
         IF limiter[b] = None
         THEN /\ UNCHANGED <<limiter, events>>
              /\ taskPc' = [taskPc EXCEPT ![t] = "done"]
         ELSE /\ ~limiter[b].lock
              /\ events' = [events EXCEPT
                              ![t] = Append(@, IF success[t] THEN "release_true" ELSE "release_false")]
              /\ limiter' = [limiter EXCEPT ![b] = release_enter(@, success[t])]
              /\ taskPc' = [taskPc EXCEPT
                              ![t] = IF limiter[b].debt > 0 THEN "done" ELSE "window"]
    /\ UNCHANGED <<argVars, dl, crawl, rel, report, mainPc, discoveryVars, bucketVars, bucketPc, success, invoked>>

\* release() from line 182 to its return.
TaskReleaseWindow(t) ==
    /\ taskPc[t] = "window"
    /\ limiter' = [limiter EXCEPT ![BucketOf(t)] = release_window(@)]
    /\ taskPc' = [taskPc EXCEPT ![t] = "done"]
    /\ UNCHANGED <<argVars, dl, crawl, rel, report, mainPc, discoveryVars, bucketVars, bucketPc, success, invoked, events>>

\* The future of t holds an exception: wrapped_task has no except clause.
FutureRaised(t) == taskPc[t] = "done" /\ ~success[t]

\* Lines 741-742: future.result() re-raises the exception of a finished
\* task; the with block's exit then waits for the pool.
CollectRaises(b) ==
    /\ bucketPc[b] = "collect"
    /\ \E t \in BucketTasks(b) : FutureRaised(t)
    /\ bucketPc' = [bucketPc EXCEPT ![b] = "unwind"]
    /\ UNCHANGED <<argVars, dl, crawl, rel, report, mainPc, discoveryVars, bucketVars, limiter, taskVars>>

\* Mutant of ProcessHostRaise: the pool is left without waiting for it.
ProcessHostRaiseNoWait(b) ==
    /\ bucketPc[b] = "unwind"
    /\ bucketPc' = [bucketPc EXCEPT ![b] = "died"]
    /\ limiter' = [limiter EXCEPT ![b] = None]
    /\ UNCHANGED <<argVars, dl, crawl, rel, report, mainPc, discoveryVars, bucketVars, taskVars>>

\* The exception leaves process_host once the pool has shut down
\* (shutdown(wait=True) runs every submitted task): the thread ends.
ProcessHostRaise(b) ==
    /\ bucketPc[b] = "unwind"
    /\ \A t \in BucketTasks(b) : taskPc[t] = "done"
    /\ bucketPc' = [bucketPc EXCEPT ![b] = "died"]
    /\ limiter' = [limiter EXCEPT ![b] = None]
    /\ UNCHANGED <<argVars, dl, crawl, rel, report, mainPc, discoveryVars, bucketVars, taskVars>>

\* Every future.result() returned: process_host returns.
ProcessHostReturn(b) ==
    /\ bucketPc[b] = "collect"
    /\ \A t \in BucketTasks(b) : taskPc[t] = "done" /\ success[t]
    /\ bucketPc' = [bucketPc EXCEPT ![b] = "finished"]
    /\ limiter' = [limiter EXCEPT ![b] = None]
    /\ UNCHANGED <<argVars, dl, crawl, rel, report, mainPc, discoveryVars, bucketVars, taskVars>>

\* Lines 751-755: every join returns, main prints Done and returns 0.
MainJoin ==
    /\ mainPc = "join"
    /\ \A b \in Buckets : bucketPc[b] \in {"finished", "died"}
    /\ mainPc' = "done"
    /\ UNCHANGED <<argVars, dl, crawl, rel, report, discoveryVars, bucketVars, bucketPc, limiter, taskVars>>

Next ==
    \/ \E p \in Selections : ProviderStart(p)
    \/ \E p \in Selections : \E hs \in ProviderOutputs(p, MaxTasks) : ProviderReturn(p, hs)
    \/ \E p \in Selections : ProviderRaise(p)
    \/ \E p \in Selections : MainCollect(p)
    \/ \E p \in Selections : MainResultRaises(p)
    \/ MainCrash
    \/ MainNoTasks
    \/ \E dig_found \in BOOLEAN : \E answers \in [hostnames -> DigOutcomes] :
          MainBucket(dig_found, answers)
    \/ \E b \in BucketIdx : MainStartThread(b)
    \/ \E b \in BucketIdx : ProcessHostBegin(b)
    \/ \E t \in TaskIds : TaskDequeue(t)
    \/ \E t \in TaskIds : TaskAcquire(t)
    \/ \E t \in TaskIds : ActionReturn(t)
    \/ \E t \in TaskIds : ActionRaise(t)
    \/ \E t \in TaskIds : TaskRelease(t)
    \/ \E t \in TaskIds : TaskReleaseWindow(t)
    \/ \E b \in BucketIdx : CollectRaises(b)
    \/ \E b \in BucketIdx : ProcessHostRaise(b)
    \/ \E b \in BucketIdx : ProcessHostReturn(b)
    \/ MainJoin

Spec == Init /\ [][Next]_vars

\* ------------------------------------------------ one bucket in depth
\* SpecBucket starts where main is after bucketing when provider 1 returned
\* NumBucketTasks tasks on one host, provider 2 returned none and dig
\* answered: one bucket that holds every task.
OneHostTasks(n) == [k \in 1..n |-> DownloadTask(<<1, k>>, "h1", 1)]
OneHostResolved == resolve_hosts({"h1"}, TRUE, [h \in {"h1"} |-> [raises |-> FALSE, ips |-> <<"a1">>]])

InitBucket ==
    /\ \E a \in ArgSets : workers = a[1] /\ min_workers = a[2] /\ adaptive_enabled = a[3]
    /\ selections = SelectionOrder
    /\ mainPc = "start"
    /\ report = <<>>
    /\ provPc = [p \in Selections |-> "collected"]
    /\ provTasks = [p \in Selections |-> IF p = 1 THEN OneHostTasks(NumBucketTasks) ELSE <<>>]
    /\ discovery_results = [p \in Selections |-> IF p = 1 THEN NumBucketTasks ELSE 0]
    /\ all_tasks = OneHostTasks(NumBucketTasks)
    /\ resolved = OneHostResolved
    /\ server_buckets = BuildBuckets(OneHostTasks(NumBucketTasks), OneHostResolved, NumBucketTasks)
    /\ bucketPc = [b \in BucketIdx |-> "none"]
    /\ limiter = [b \in BucketIdx |-> None]
    /\ taskPc = [t \in TaskIds |-> "none"]
    /\ success = [t \in TaskIds |-> FALSE]
    /\ invoked = [t \in TaskIds |-> 0]
    /\ events = [t \in TaskIds |-> <<>>]
    /\ dl = NoAction
    /\ crawl = NoCrawl
    /\ rel = NoRelease

NextBucket ==
    \/ \E b \in BucketIdx : MainStartThread(b)
    \/ \E b \in BucketIdx : ProcessHostBegin(b)
    \/ \E t \in TaskIds : TaskDequeue(t)
    \/ \E t \in TaskIds : TaskAcquire(t)
    \/ \E t \in TaskIds : ActionReturn(t)
    \/ \E t \in TaskIds : ActionRaise(t)
    \/ \E t \in TaskIds : TaskRelease(t)
    \/ \E t \in TaskIds : TaskReleaseWindow(t)
    \/ \E b \in BucketIdx : CollectRaises(b)
    \/ \E b \in BucketIdx : ProcessHostRaise(b)
    \/ \E b \in BucketIdx : ProcessHostReturn(b)
    \/ MainJoin

SpecBucket == InitBucket /\ [][NextBucket]_vars

\* Threads are scheduled fairly and every action terminates: a step that
\* stays possible is eventually taken.
FairBucket == SpecBucket /\ WF_vars(NextBucket)

\* ------------------------------------ one bucket under any --workers value
\* argparse takes any integer for --workers and --min-workers.  SpecArgs is
\* SpecBucket with the two drawn from ranges that reach below 1 and, for
\* --min-workers, above --workers, adaptive concurrency on.
AnyArgSets == (-1..MaxWorkers) \X (-1..(MaxWorkers + 1)) \X {TRUE}

\* process_host with --workers below 1: build_limiter returns a limiter
\* (line 726), then ThreadPoolExecutor(max_workers=args.workers) raises
\* ValueError (line 739) before any task is submitted.
ProcessHostPoolRaises(b) ==
    /\ bucketPc[b] = "started"
    /\ workers < 1
    /\ limiter' = [limiter EXCEPT ![b] = build_limiter(workers, min_workers, adaptive_enabled)]
    /\ bucketPc' = [bucketPc EXCEPT ![b] = "pool_error"]
    /\ UNCHANGED <<argVars, dl, crawl, rel, report, mainPc, discoveryVars, bucketVars, taskVars>>

\* The ValueError leaves process_host: the thread ends.
ProcessHostPoolDies(b) ==
    /\ bucketPc[b] = "pool_error"
    /\ bucketPc' = [bucketPc EXCEPT ![b] = "died"]
    /\ limiter' = [limiter EXCEPT ![b] = None]
    /\ UNCHANGED <<argVars, dl, crawl, rel, report, mainPc, discoveryVars, bucketVars, taskVars>>

InitArgs ==
    /\ \E a \in AnyArgSets : workers = a[1] /\ min_workers = a[2] /\ adaptive_enabled = a[3]
    /\ selections = SelectionOrder
    /\ mainPc = "start"
    /\ report = <<>>
    /\ provPc = [p \in Selections |-> "collected"]
    /\ provTasks = [p \in Selections |-> IF p = 1 THEN OneHostTasks(NumBucketTasks) ELSE <<>>]
    /\ discovery_results = [p \in Selections |-> IF p = 1 THEN NumBucketTasks ELSE 0]
    /\ all_tasks = OneHostTasks(NumBucketTasks)
    /\ resolved = OneHostResolved
    /\ server_buckets = BuildBuckets(OneHostTasks(NumBucketTasks), OneHostResolved, NumBucketTasks)
    /\ bucketPc = [b \in BucketIdx |-> "none"]
    /\ limiter = [b \in BucketIdx |-> None]
    /\ taskPc = [t \in TaskIds |-> "none"]
    /\ success = [t \in TaskIds |-> FALSE]
    /\ invoked = [t \in TaskIds |-> 0]
    /\ events = [t \in TaskIds |-> <<>>]
    /\ dl = NoAction
    /\ crawl = NoCrawl
    /\ rel = NoRelease

NextArgs ==
    \/ \E b \in BucketIdx : MainStartThread(b)
    \/ \E b \in BucketIdx : ProcessHostBegin(b)
    \/ \E b \in BucketIdx : ProcessHostPoolRaises(b)
    \/ \E b \in BucketIdx : ProcessHostPoolDies(b)
    \/ \E t \in TaskIds : TaskDequeue(t)
    \/ \E t \in TaskIds : TaskAcquire(t)
    \/ \E t \in TaskIds : ActionReturn(t)
    \/ \E t \in TaskIds : ActionRaise(t)
    \/ \E t \in TaskIds : TaskRelease(t)
    \/ \E t \in TaskIds : TaskReleaseWindow(t)
    \/ \E b \in BucketIdx : CollectRaises(b)
    \/ \E b \in BucketIdx : ProcessHostRaise(b)
    \/ \E b \in BucketIdx : ProcessHostReturn(b)
    \/ MainJoin

SpecArgs == InitArgs /\ [][NextArgs]_vars

\* --------------------------------- the limiter under any constructor call
\* SpecLimiter runs MaxTasks tasks of one bucket through a limiter built by
\* AdaptiveLimiter(initial, min_limit, max_limit, window, up, down) for
\* every argument tuple of the ranges above, with a pool of MaxWorkers.
InitLimiter ==
    /\ workers = MaxWorkers
    /\ min_workers = 1
    /\ adaptive_enabled = TRUE
    /\ selections = SelectionOrder
    /\ mainPc = "join"
    /\ report = <<>>
    /\ provPc = [p \in Selections |-> "collected"]
    /\ provTasks = [p \in Selections |-> IF p = 1 THEN OneHostTasks(MaxTasks) ELSE <<>>]
    /\ discovery_results = [p \in Selections |-> IF p = 1 THEN MaxTasks ELSE 0]
    /\ all_tasks = OneHostTasks(MaxTasks)
    /\ resolved = OneHostResolved
    /\ server_buckets = BuildBuckets(OneHostTasks(MaxTasks), OneHostResolved, MaxTasks)
    /\ bucketPc = [b \in BucketIdx |-> IF b = 1 THEN "collect" ELSE "none"]
    /\ \E initial \in 0..MaxCfg, min_limit \in 0..MaxCfg, max_limit \in 0..MaxCfg,
          window \in 1..MaxCfgWindow, th \in CfgThresholds :
          limiter = [b \in BucketIdx |->
                        IF b = 1
                        THEN AdaptiveLimiter(initial, min_limit, max_limit, window, th[1], th[2])
                        ELSE None]
    /\ taskPc = [t \in TaskIds |-> IF t[1] = 1 /\ t[2] <= MaxTasks THEN "queued" ELSE "none"]
    /\ success = [t \in TaskIds |-> FALSE]
    /\ invoked = [t \in TaskIds |-> 0]
    /\ events = [t \in TaskIds |-> <<>>]
    /\ dl = NoAction
    /\ crawl = NoCrawl
    /\ rel = NoRelease

NextLimiter ==
    \/ \E t \in TaskIds : TaskDequeue(t)
    \/ \E t \in TaskIds : TaskAcquire(t)
    \/ \E t \in TaskIds : ActionReturn(t)
    \/ \E t \in TaskIds : ActionRaise(t)
    \/ \E t \in TaskIds : TaskRelease(t)
    \/ \E t \in TaskIds : TaskReleaseWindow(t)

SpecLimiter == InitLimiter /\ [][NextLimiter]_vars

\* ------------------------------------- bucketing of any flat task list
\* SpecBucketing starts where main is when discovery has ended with a flat
\* list of 1..MaxTasks tasks whose hosts are any of BucketingHosts, "unknown"
\* being the host make_http_task gives a URL without hostname (line 104).
BucketingHosts == Hosts \cup {"unknown"}
HostLists == UNION {[1..n -> BucketingHosts] : n \in 1..MaxTasks}

InitBucketing ==
    /\ workers = MaxWorkers
    /\ min_workers = 1
    /\ adaptive_enabled = TRUE
    /\ selections = SelectionOrder
    /\ mainPc = "discovery"
    /\ report = <<>>
    /\ provPc = [p \in Selections |-> "collected"]
    /\ \E hs \in HostLists :
          /\ provTasks = [p \in Selections |->
                            IF p = 1 THEN [k \in DOMAIN hs |-> DownloadTask(<<1, k>>, hs[k], 1)]
                            ELSE <<>>]
          /\ discovery_results = [p \in Selections |-> IF p = 1 THEN Len(hs) ELSE 0]
          /\ all_tasks = [k \in DOMAIN hs |-> DownloadTask(<<1, k>>, hs[k], 1)]
    /\ resolved = EmptyDict
    /\ server_buckets = <<>>
    /\ bucketPc = [b \in BucketIdx |-> "none"]
    /\ limiter = [b \in BucketIdx |-> None]
    /\ taskPc = [t \in TaskIds |-> "none"]
    /\ success = [t \in TaskIds |-> FALSE]
    /\ invoked = [t \in TaskIds |-> 0]
    /\ events = [t \in TaskIds |-> <<>>]
    /\ dl = NoAction
    /\ crawl = NoCrawl
    /\ rel = NoRelease

NextBucketing ==
    \/ \E dig_found \in BOOLEAN : \E answers \in [hostnames -> DigOutcomes] :
          MainBucket(dig_found, answers)
    \/ \E b \in BucketIdx : MainStartThread(b)

SpecBucketing == InitBucketing /\ [][NextBucketing]_vars

\* --------------------------------- discovery for any order of selection
\* SpecDiscovery is the discovery phase up to the report and the bucketing,
\* started with the selected providers given in any order.
InitDiscovery ==
    /\ workers \in 1..MaxWorkers
    /\ min_workers = 1
    /\ adaptive_enabled = TRUE
    /\ selections \in SelectionOrders
    /\ mainPc = "discovery"
    /\ report = <<>>
    /\ provPc = [p \in Selections |-> "queued"]
    /\ provTasks = [p \in Selections |-> <<>>]
    /\ discovery_results = [p \in Selections |-> -1]
    /\ all_tasks = <<>>
    /\ resolved = EmptyDict
    /\ server_buckets = <<>>
    /\ bucketPc = [b \in BucketIdx |-> "none"]
    /\ limiter = [b \in BucketIdx |-> None]
    /\ taskPc = [t \in TaskIds |-> "none"]
    /\ success = [t \in TaskIds |-> FALSE]
    /\ invoked = [t \in TaskIds |-> 0]
    /\ events = [t \in TaskIds |-> <<>>]
    /\ dl = NoAction
    /\ crawl = NoCrawl
    /\ rel = NoRelease

NextDiscovery ==
    \/ \E p \in Selections : ProviderStart(p)
    \/ \E p \in Selections : \E hs \in ProviderOutputs(p, MaxTasks) : ProviderReturn(p, hs)
    \/ \E p \in Selections : ProviderRaise(p)
    \/ \E p \in Selections : MainCollect(p)
    \/ \E p \in Selections : MainResultRaises(p)
    \/ MainCrash
    \/ MainNoTasks
    \/ \E dig_found \in BOOLEAN : \E answers \in [hostnames -> DigOutcomes] :
          MainBucket(dig_found, answers)

SpecDiscovery == InitDiscovery /\ [][NextDiscovery]_vars

\* ------------------------------------- one task action, run repeatedly
\* The orchestrator is not involved.
NotRunning ==
    UNCHANGED <<argVars, report, mainPc, discoveryVars, bucketVars, bucketPc, limiter, taskVars>>

\* Mutant of except_handler: one attempt more than `retries`.
except_handler_one_more(d) ==
    IF d.attempt + 1 <= Retries
    THEN [d EXCEPT !.attempt = @ + 1, !.pc = "attempt"]
    ELSE [d EXCEPT !.pc = "raised"]

\* The except clause of download_file's loop, lines 91-97: go to the next
\* attempt, or leave the loop and raise last_exc (lines 98-99).
except_handler(d) ==
    IF d.attempt + 1 < Retries
    THEN [d EXCEPT !.attempt = @ + 1, !.pc = "attempt"]
    ELSE [d EXCEPT !.pc = "raised"]

\* The action is called (task.action(), line 733) for the next run.
ActionCall ==
    /\ dl.pc \in {"idle", "returned", "skipped", "raised"}
    /\ dl.run < MaxRuns
    /\ dl' = [dl EXCEPT !.run = @ + 1, !.pc = "begin", !.attempt = 0,
                        !.had = (dl.fs # "absent"), !.net = 0]
    /\ NotRunning /\ UNCHANGED <<crawl, rel>>

\* download_file, lines 77-82: skip if the destination exists.
download_file_exists ==
    /\ dl.kind = "http" /\ dl.pc = "begin"
    /\ dl' = [dl EXCEPT !.pc = IF dl.fs # "absent" THEN "skipped" ELSE "attempt"]
    /\ NotRunning /\ UNCHANGED <<crawl, rel>>

\* Line 87: urlopen raises (nothing was opened yet).
download_file_urlopen_raises ==
    /\ dl.kind = "http" /\ dl.pc = "attempt"
    /\ dl' = except_handler([dl EXCEPT !.net = @ + 1])
    /\ NotRunning /\ UNCHANGED <<crawl, rel>>

\* Line 87: urlopen returns a response, open(dest_path, "wb") creates the
\* destination, or truncates what an earlier attempt left.
download_file_open ==
    /\ dl.kind = "http" /\ dl.pc = "attempt"
    /\ dl' = [dl EXCEPT !.net = @ + 1, !.fs = "partial", !.pc = "opened"]
    /\ NotRunning /\ UNCHANGED <<crawl, rel>>

\* Lines 88-91: fh.write(resp.read()) completes, the file is closed.
download_file_write ==
    /\ dl.kind = "http" /\ dl.pc = "opened"
    /\ dl' = [dl EXCEPT !.fs = "complete", !.pc = "returned"]
    /\ NotRunning /\ UNCHANGED <<crawl, rel>>

\* Line 88: resp.read() or fh.write() raises; the with statement closes the
\* file and nothing removes it.
download_file_write_raises ==
    /\ dl.kind = "http" /\ dl.pc = "opened"
    /\ dl' = except_handler(dl)
    /\ NotRunning /\ UNCHANGED <<crawl, rel>>

\* ZRS KVP action, lines 405-407: zrs.download_log(url, season) fetches the page
\* with fetch_text (1..Retries urlopen calls); it returns None when the fetch
\* fails or the page has no callsign, and the action returns.
zrs_download_log(calls, ok) ==
    /\ dl.kind = "zrs_kvp" /\ dl.pc = "begin"
    /\ dl' = [dl EXCEPT !.net = @ + calls, !.pc = IF ok THEN "parsed" ELSE "returned"]
    /\ NotRunning /\ UNCHANGED <<crawl, rel>>

\* Lines 409-413: skip if dest_path exists.
zrs_exists ==
    /\ dl.kind = "zrs_kvp" /\ dl.pc = "parsed"
    /\ dl' = [dl EXCEPT !.pc = IF dl.fs # "absent" THEN "skipped" ELSE "write"]
    /\ NotRunning /\ UNCHANGED <<crawl, rel>>

\* Line 414: zrs.write_log writes the file (dest.write_text).
zrs_write_log(ok) ==
    /\ dl.kind = "zrs_kvp" /\ dl.pc = "write"
    /\ dl' = IF ok THEN [dl EXCEPT !.fs = "complete", !.pc = "returned"]
                   ELSE [dl EXCEPT !.fs = "partial", !.pc = "raised"]
    /\ NotRunning /\ UNCHANGED <<crawl, rel>>

\* VHFManager action, lines 487-500: vhf.fetch_text(link.url); the action
\* returns when the fetch fails or no QSO is parsed.
vhf_fetch_text(calls, ok) ==
    /\ dl.kind = "vhfmanager" /\ dl.pc = "begin"
    /\ dl' = [dl EXCEPT !.net = @ + calls, !.pc = IF ok THEN "parsed" ELSE "returned"]
    /\ NotRunning /\ UNCHANGED <<crawl, rel>>

\* Line 504 and vhf.write_log: return the existing destination, or write it.
vhf_write_log(ok) ==
    /\ dl.kind = "vhfmanager" /\ dl.pc = "parsed"
    /\ dl' = IF dl.fs # "absent" THEN [dl EXCEPT !.pc = "skipped"]
             ELSE IF ok THEN [dl EXCEPT !.fs = "complete", !.pc = "returned"]
             ELSE [dl EXCEPT !.fs = "partial", !.pc = "raised"]
    /\ NotRunning /\ UNCHANGED <<crawl, rel>>

InitAction ==
    /\ workers = MaxWorkers
    /\ min_workers = 1
    /\ adaptive_enabled = TRUE
    /\ selections = SelectionOrder
    /\ mainPc = "join"
    /\ report = <<>>
    /\ provPc = [p \in Selections |-> "collected"]
    /\ provTasks = [p \in Selections |-> <<>>]
    /\ discovery_results = [p \in Selections |-> 0]
    /\ all_tasks = <<>>
    /\ resolved = EmptyDict
    /\ server_buckets = <<>>
    /\ bucketPc = [b \in BucketIdx |-> "none"]
    /\ limiter = [b \in BucketIdx |-> None]
    /\ taskPc = [t \in TaskIds |-> "none"]
    /\ success = [t \in TaskIds |-> FALSE]
    /\ invoked = [t \in TaskIds |-> 0]
    /\ events = [t \in TaskIds |-> <<>>]
    /\ \E k \in ActionKinds : dl = [NoAction EXCEPT !.kind = k]
    /\ crawl = NoCrawl
    /\ rel = NoRelease

NextAction ==
    \/ ActionCall
    \/ download_file_exists
    \/ download_file_urlopen_raises
    \/ download_file_open
    \/ download_file_write
    \/ download_file_write_raises
    \/ \E calls \in 1..Retries : \E ok \in BOOLEAN : zrs_download_log(calls, ok)
    \/ zrs_exists
    \/ \E ok \in BOOLEAN : zrs_write_log(ok)
    \/ \E calls \in 1..Retries : \E ok \in BOOLEAN : vhf_fetch_text(calls, ok)
    \/ \E ok \in BOOLEAN : vhf_write_log(ok)

SpecAction == InitAction /\ [][NextAction]_vars

\* ------------------------------------- one call of download_contest_logs
\* The futures dict: links submitted and not yet popped.
CrawlFutures == crawl.running \cup crawl.finished

\* Lines 481-486: submit from the end of pending while the pool has room;
\* leave the loop when nothing is pending or in flight.
CrawlFill ==
    /\ crawl.pc = "fill"
    /\ LET room == crawl.workers - Cardinality(CrawlFutures)
           k == Min(Len(crawl.pending), IF room > 0 THEN room ELSE 0)
           n == Len(crawl.pending)
           taken == [i \in 1..k |-> crawl.pending[n + 1 - i]]
       IN crawl' = [crawl EXCEPT
                      !.pending = SubSeq(@, 1, n - k),
                      !.running = @ \cup Range(taken),
                      !.submitted = @ \cup Range(taken),
                      !.nsubmitted = @ + k,
                      !.pc = IF CrawlFutures = {} /\ k = 0 THEN "returned" ELSE "wait"]
    /\ NotRunning /\ UNCHANGED <<dl, rel>>

\* worker(link), lines 449-472, ends: its future is done.
CrawlWorkerEnds(url) ==
    /\ crawl.pc \in {"fill", "wait", "harvest"}
    /\ url \in crawl.running
    /\ crawl' = [crawl EXCEPT !.running = @ \ {url}, !.finished = @ \cup {url}]
    /\ NotRunning /\ UNCHANGED <<dl, rel>>

\* Lines 487-489: wait(FIRST_COMPLETED) returns the futures that are done.
CrawlWait ==
    /\ crawl.pc = "wait"
    /\ crawl.finished # {}
    /\ crawl' = [crawl EXCEPT !.todo = crawl.finished, !.pc = "harvest"]
    /\ NotRunning /\ UNCHANGED <<dl, rel>>

\* Lines 490-508 for one future of `done`: new_links is what its worker
\* returned, the links found in the log, [] when the fetch failed, the log
\* has no QSO or include_checklogs is off; [] also when the worker raised.
CrawlHarvest(url, new_links) ==
    /\ crawl.pc = "harvest"
    /\ url \in crawl.todo
    /\ crawl.include_checklogs \/ new_links = <<>>
    /\ LET popped == [crawl EXCEPT !.todo = @ \ {url}, !.finished = @ \ {url},
                                   !.downloaded = @ + 1,
                                   !.pc = IF crawl.todo = {url} THEN "fill" ELSE "harvest"]
       IN crawl' = IF crawl.include_checklogs
                   THEN add_new_links(popped, new_links, 1)
                   ELSE popped
    /\ NotRunning /\ UNCHANGED <<dl, rel>>

InitCrawl ==
    /\ workers = MaxWorkers
    /\ min_workers = 1
    /\ adaptive_enabled = TRUE
    /\ selections = SelectionOrder
    /\ mainPc = "join"
    /\ report = <<>>
    /\ provPc = [p \in Selections |-> "collected"]
    /\ provTasks = [p \in Selections |-> <<>>]
    /\ discovery_results = [p \in Selections |-> 0]
    /\ all_tasks = <<>>
    /\ resolved = EmptyDict
    /\ server_buckets = <<>>
    /\ bucketPc = [b \in BucketIdx |-> "none"]
    /\ limiter = [b \in BucketIdx |-> None]
    /\ taskPc = [t \in TaskIds |-> "none"]
    /\ success = [t \in TaskIds |-> FALSE]
    /\ invoked = [t \in TaskIds |-> 0]
    /\ events = [t \in TaskIds |-> <<>>]
    /\ dl = NoAction
    /\ rel = NoRelease
    /\ \E seed_links \in LinkLists(MaxSeeds), w \in 1..MaxWorkers, max_logs \in Caps,
          include_checklogs \in BOOLEAN :
          crawl = crawl_begin(seed_links, w, max_logs, include_checklogs)

NextCrawl ==
    \/ CrawlFill
    \/ \E url \in Urls : CrawlWorkerEnds(url)
    \/ CrawlWait
    \/ \E url \in Urls : \E new_links \in FoundLinks(MaxNewLinks) : CrawlHarvest(url, new_links)

SpecCrawl == InitCrawl /\ [][NextCrawl]_vars

\* ----------------------------------------- release(), statement by statement
\* Everything but rel and the arguments stays as it is.
OnlyRelease ==
    UNCHANGED <<argVars, report, mainPc, discoveryVars, bucketVars, bucketPc, limiter,
                taskVars, dl, crawl>>

\* wrapped_task, line 731: limiter.acquire().
RelAcquire(i) ==
    /\ i <= workers
    /\ rel.pc[i] = "idle"
    /\ rel.calls < MaxCalls
    /\ CanAcquire(rel.L)
    /\ rel' = [rel EXCEPT !.L = acquire(@), !.serial = acquire(@),
                          !.calls = @ + 1, !.pc[i] = "held"]
    /\ OnlyRelease

\* Lines 733-737 and 169: task.action() returned (ok) or raised (~ok),
\* release(ok) is called and takes the lock.
RelLock(i, ok) ==
    /\ rel.pc[i] = "held"
    /\ LockFree(rel.L)
    /\ rel' = [rel EXCEPT !.L.lock = TRUE, !.ok[i] = ok, !.pc[i] = "load",
                          !.serial = release(@, ok), !.since = @ + 1]
    /\ OnlyRelease

\* Lines 171, 173: the read of `self._succ += 1` or `self._fail += 1`.
RelLoad(i) ==
    /\ rel.pc[i] = "load"
    /\ rel' = [rel EXCEPT !.tmp[i] = IF rel.ok[i] THEN rel.L.succ ELSE rel.L.fail,
                          !.pc[i] = "store"]
    /\ OnlyRelease

\* Lines 171, 173: the write.
RelStore(i) ==
    /\ rel.pc[i] = "store"
    /\ rel' = [rel EXCEPT !.L = IF rel.ok[i] THEN [@ EXCEPT !.succ = rel.tmp[i] + 1]
                                             ELSE [@ EXCEPT !.fail = rel.tmp[i] + 1],
                          !.tmp[i] = 0,
                          !.pc[i] = "total"]
    /\ OnlyRelease

\* Line 174.
RelTotal(i) ==
    /\ rel.pc[i] = "total"
    /\ rel' = [rel EXCEPT !.total[i] = rel.L.succ + rel.L.fail, !.pc[i] = "debt"]
    /\ OnlyRelease

\* Lines 176-180: consume debt and return (the lock is released), or
\* release the semaphore.
RelDebt(i) ==
    /\ rel.pc[i] = "debt"
    /\ rel' = IF rel.L.debt > 0
              THEN [rel EXCEPT !.L.debt = @ - 1, !.L.lock = FALSE,
                               !.total[i] = 0, !.pc[i] = "idle"]
              ELSE [rel EXCEPT !.L.sema = @ + 1, !.pc[i] = "window"]
    /\ OnlyRelease

\* Lines 182-200 and the end of the with block.
RelWindow(i) ==
    /\ rel.pc[i] = "window"
    /\ LET L == rel.L
           total == rel.total[i]
           U == [L EXCEPT !.lock = FALSE]
           A == IF RateAbove(L.fail, total, L.down_threshold) /\ L.limit > L.min
                THEN [U EXCEPT !.limit = @ - 1, !.debt = @ + 1]
                ELSE IF RateBelow(L.fail, total, L.up_threshold) /\ L.limit < L.max
                     THEN [U EXCEPT !.limit = @ + 1, !.sema = @ + 1]
                     ELSE U
       IN rel' = IF total >= L.window
                 THEN [rel EXCEPT !.L = [A EXCEPT !.succ = 0, !.fail = 0],
                                  !.since = 0, !.total[i] = 0, !.pc[i] = "idle"]
                 ELSE [rel EXCEPT !.L = U, !.total[i] = 0, !.pc[i] = "idle"]
    /\ OnlyRelease

InitRelease ==
    /\ \E a \in ArgSets : workers = a[1] /\ min_workers = a[2] /\ adaptive_enabled = a[3]
    /\ adaptive_enabled
    /\ selections = SelectionOrder
    /\ mainPc = "join"
    /\ report = <<>>
    /\ provPc = [p \in Selections |-> "collected"]
    /\ provTasks = [p \in Selections |-> <<>>]
    /\ discovery_results = [p \in Selections |-> 0]
    /\ all_tasks = <<>>
    /\ resolved = EmptyDict
    /\ server_buckets = <<>>
    /\ bucketPc = [b \in BucketIdx |-> "none"]
    /\ limiter = [b \in BucketIdx |-> None]
    /\ taskPc = [t \in TaskIds |-> "none"]
    /\ success = [t \in TaskIds |-> FALSE]
    /\ invoked = [t \in TaskIds |-> 0]
    /\ events = [t \in TaskIds |-> <<>>]
    /\ dl = NoAction
    /\ crawl = NoCrawl
    /\ rel = [L |-> build_limiter(workers, min_workers, adaptive_enabled),
              serial |-> build_limiter(workers, min_workers, adaptive_enabled),
              since |-> 0,
              calls |-> 0,
              pc |-> [i \in 1..MaxWorkers |-> "idle"],
              ok |-> [i \in 1..MaxWorkers |-> FALSE],
              tmp |-> [i \in 1..MaxWorkers |-> 0],
              total |-> [i \in 1..MaxWorkers |-> 0]]

NextRelease ==
    \/ \E i \in 1..MaxWorkers : RelAcquire(i)
    \/ \E i \in 1..MaxWorkers : \E ok \in BOOLEAN : RelLock(i, ok)
    \/ \E i \in 1..MaxWorkers : RelLoad(i)
    \/ \E i \in 1..MaxWorkers : RelStore(i)
    \/ \E i \in 1..MaxWorkers : RelTotal(i)
    \/ \E i \in 1..MaxWorkers : RelDebt(i)
    \/ \E i \in 1..MaxWorkers : RelWindow(i)

SpecRelease == InitRelease /\ [][NextRelease]_vars

\* ============================================================ properties
HasLimiter(b) == b \in Buckets /\ limiter[b] # None

\* Tasks that have returned from acquire() and not yet completed release().
InFlight(b) == {t \in BucketTasks(b) : taskPc[t] \in {"action", "release", "window"}}
\* Tasks that hold a permit: the window check runs after the permit went back.
Held(b) == {t \in BucketTasks(b) : taskPc[t] \in {"action", "release"}}
\* Effective capacity: permits available + permits held.
Capacity(b) == limiter[b].sema + Cardinality(Held(b))
\* Permits available + permits held + outstanding debt.
PermitSum(b) == limiter[b].sema + Cardinality(Held(b)) + limiter[b].debt

LimitInBounds(L) == L.min <= L.limit /\ L.limit <= L.max

\* This step ends the release() call of task t on a limiter.
ReleaseReturns(t) ==
    /\ taskPc[t] \in {"release", "window"}
    /\ taskPc'[t] = "done"
    /\ HasLimiter(BucketOf(t))
\* This step is the window check of the release() call of task t.
WindowCheck(t) == taskPc[t] = "window" /\ taskPc'[t] = "done"
\* This step is a release() call of task t that consumes debt and returns.
DebtRelease(t) ==
    taskPc[t] = "release" /\ taskPc'[t] = "done" /\ HasLimiter(BucketOf(t))
\* The counters as the release() call of t that ends with this step sees
\* them after its increment.
CountedFail(t) ==
    IF taskPc[t] = "window" THEN limiter[BucketOf(t)].fail ELSE limiter'[BucketOf(t)].fail
CountedTotal(t) ==
    IF taskPc[t] = "window"
    THEN limiter[BucketOf(t)].succ + limiter[BucketOf(t)].fail
    ELSE limiter'[BucketOf(t)].succ + limiter'[BucketOf(t)].fail
\* No task other than t moves in this step.
OthersKeepRunning(t) == \A u \in TaskIds \ {t} : taskPc'[u] = taskPc[u]

\* ---------------------------------------------------------------- C1
\* C1 (as stated): for every limiter the constructor accepts and every
\* sequence of releases, min <= limit <= max in every reachable state.
C1_LimitWithinBounds ==
    \A b \in BucketIdx : HasLimiter(b) => LimitInBounds(limiter[b])

\* C1 (amended): a limiter whose limit is within [min, max], as it is at
\* construction when min <= initial <= max, keeps it there at every step.
C1_LimitStaysWithinBounds ==
    [][\A b \in BucketIdx :
          (HasLimiter(b) /\ LimitInBounds(limiter[b]) /\ limiter'[b] # None)
              => LimitInBounds(limiter'[b])]_vars

\* A window of failures arrived at limit = min < max, and the limit stayed.
C1_Witness ==
    \E b \in BucketIdx :
        /\ HasLimiter(b)
        /\ limiter[b].min < limiter[b].max
        /\ limiter[b].limit = limiter[b].min
        /\ limiter[b].debt = 0 /\ limiter[b].succ = 0 /\ limiter[b].fail = 0
        /\ \E t \in BucketTasks(b) : taskPc[t] = "done" /\ ~success[t]
        /\ \A t \in BucketTasks(b) : taskPc[t] = "done"

\* ---------------------------------------------------------------- C2
\* C2: in a bucket whose limiter build_limiter made, the number of tasks
\* that returned from acquire() and have not completed release() never
\* exceeds the limiter's max.
C2_InFlightAtMostMax ==
    \A b \in BucketIdx : HasLimiter(b) => Cardinality(InFlight(b)) <= limiter[b].max

\* Right after a shrink (debt outstanding), max actions are in flight.
C2_Witness ==
    \E b \in BucketIdx :
        /\ HasLimiter(b)
        /\ limiter[b].debt = 1
        /\ limiter[b].max > 1
        /\ Cardinality(InFlight(b)) = limiter[b].max

\* ---------------------------------------------------------------- C3
\* C3 (as stated): with min < max, a release that completes a window whose
\* failure rate is above down_threshold lowers limit by exactly 1.
C3_FailingWindowShrinks ==
    [][\A t \in TaskIds :
          (/\ ReleaseReturns(t)
           /\ limiter[BucketOf(t)].min < limiter[BucketOf(t)].max
           /\ CountedTotal(t) >= limiter[BucketOf(t)].window
           /\ RateAbove(CountedFail(t), CountedTotal(t), limiter[BucketOf(t)].down_threshold))
              => limiter'[BucketOf(t)].limit = limiter[BucketOf(t)].limit - 1]_vars

\* C3 (amended): a release that reaches the window check with a full window,
\* a failure rate above down_threshold and limit > min lowers limit by
\* exactly 1 and adds 1 to debt, leaving the permits available and held as
\* they are; the next release to consume debt lowers the effective capacity
\* (available + held) by exactly 1; in both steps no other task is touched.
C3_ShrinkThroughDebt ==
    [][\A t \in TaskIds :
          /\ (/\ WindowCheck(t)
              /\ CountedTotal(t) >= limiter[BucketOf(t)].window
              /\ RateAbove(CountedFail(t), CountedTotal(t), limiter[BucketOf(t)].down_threshold)
              /\ limiter[BucketOf(t)].limit > limiter[BucketOf(t)].min)
                 => /\ limiter'[BucketOf(t)].limit = limiter[BucketOf(t)].limit - 1
                    /\ limiter'[BucketOf(t)].debt = limiter[BucketOf(t)].debt + 1
                    /\ Capacity(BucketOf(t))' = Capacity(BucketOf(t))
                    /\ OthersKeepRunning(t)
          /\ DebtRelease(t)
                 => /\ limiter[BucketOf(t)].debt > 0
                    /\ limiter'[BucketOf(t)].debt = limiter[BucketOf(t)].debt - 1
                    /\ limiter'[BucketOf(t)].limit = limiter[BucketOf(t)].limit
                    /\ Capacity(BucketOf(t))' = Capacity(BucketOf(t)) - 1
                    /\ OthersKeepRunning(t)]_vars

\* A shrink happened and its debt has been consumed: the capacity is the
\* lowered limit.
C3_Witness ==
    \E b \in BucketIdx :
        /\ HasLimiter(b)
        /\ limiter[b].limit = limiter[b].max - 1
        /\ limiter[b].debt = 0
        /\ ~limiter[b].lock
        /\ Capacity(b) = limiter[b].limit
        /\ \E t \in BucketTasks(b) : taskPc[t] = "action"

\* ---------------------------------------------------------------- C4
\* C4: a release that completes a window whose failure rate is below
\* up_threshold while limit < max raises limit by exactly 1 and releases the
\* semaphore a second time, after the release of the permit it returns, so
\* that an acquirer can proceed.
C4_QuietWindowGrows ==
    [][\A t \in TaskIds :
          /\ (/\ ReleaseReturns(t)
              /\ CountedTotal(t) >= limiter[BucketOf(t)].window
              /\ RateBelow(CountedFail(t), CountedTotal(t), limiter[BucketOf(t)].up_threshold)
              /\ limiter[BucketOf(t)].limit < limiter[BucketOf(t)].max)
                 => /\ taskPc[t] = "window"
                    /\ limiter'[BucketOf(t)].limit = limiter[BucketOf(t)].limit + 1
                    /\ limiter'[BucketOf(t)].sema = limiter[BucketOf(t)].sema + 1
                    /\ CanAcquire(limiter'[BucketOf(t)])
          /\ (taskPc[t] = "release" /\ taskPc'[t] = "window")
                 => limiter'[BucketOf(t)].sema = limiter[BucketOf(t)].sema + 1]_vars

\* The limit is back at max after a window with a failure: it was lowered
\* and then raised again.
C4_Witness ==
    \E b \in BucketIdx :
        /\ HasLimiter(b)
        /\ limiter[b].min < limiter[b].max
        /\ limiter[b].limit = limiter[b].max
        /\ limiter[b].succ = 0 /\ limiter[b].fail = 0 /\ ~limiter[b].lock
        /\ \E t \in BucketTasks(b) : taskPc[t] = "done" /\ ~success[t]

\* ---------------------------------------------------------------- C5
\* This step is a window check of task t that changes the limit.
Adjusts(t) == WindowCheck(t) /\ limiter'[BucketOf(t)].limit # limiter[BucketOf(t)].limit

\* C5 (as stated): available + held + debt is the same before and after
\* every limit adjustment.
C5_PermitSumConserved ==
    [][\A t \in TaskIds :
          Adjusts(t) => PermitSum(BucketOf(t))' = PermitSum(BucketOf(t))]_vars

\* C5 (amended): across every limit adjustment available + held + debt goes
\* up by exactly 1, and available + held - debt equals limit before and after.
C5_PermitSumTracksLimit ==
    [][\A t \in TaskIds :
          Adjusts(t) =>
             /\ PermitSum(BucketOf(t))' = PermitSum(BucketOf(t)) + 1
             /\ Capacity(BucketOf(t)) - limiter[BucketOf(t)].debt = limiter[BucketOf(t)].limit
             /\ Capacity(BucketOf(t))' - limiter'[BucketOf(t)].debt = limiter'[BucketOf(t)].limit]_vars

\* A shrink adjustment has just happened while an action was in flight.
C5_Witness ==
    \E b \in BucketIdx :
        /\ HasLimiter(b)
        /\ limiter[b].debt = 1
        /\ limiter[b].limit = limiter[b].max - 1
        /\ \E t \in BucketTasks(b) : taskPc[t] = "action"

\* ---------------------------------------------------------------- C6
Dests == {all_tasks[i].dest : i \in DOMAIN all_tasks}
Finished == {"done", "nowork", "crashed"}

C8_ExceptionContained ==
    \A b \in BucketIdx : bucketPc[b] \notin {"unwind", "died"}

\* ---------------------------------------------------------------- C9
\* C9: when a provider raises during discovery, it contributes no task and
\* the run goes on: when the run has ended, every task the other providers
\* returned has been executed.
C9_FailingProviderIsolated ==
    (mainPc \in Finished /\ \E p \in Selections : provPc[p] = "raised")
        => \A p \in Selections : \A k \in DOMAIN provTasks[p] : invoked[<<p, k>>] = 1

\* --------------------------------------------------------------- C10
\* The first address of a host, or "unresolved".
AddressOf(h) ==
    IF h \in DOMAIN resolved /\ resolved[h] # <<>> THEN resolved[h][1] ELSE "unresolved"

\* C10: tasks of two hostnames that resolve to the same address are in one
\* and the same bucket.
C10_SharedAddressSharesBucket ==
    server_buckets # <<>> =>
        \A i, j \in DOMAIN all_tasks :
            (/\ all_tasks[i].host # all_tasks[j].host
             /\ AddressOf(all_tasks[i].host) # "unresolved"
             /\ AddressOf(all_tasks[i].host) = AddressOf(all_tasks[j].host))
                => BucketOf(all_tasks[i].dest) = BucketOf(all_tasks[j].dest)

\* --------------------------------------------------------------- C11
\* The places <<b, j>> of server_buckets that hold the task with dest d.
PlacesOf(d) ==
    {<<b, j>> \in Buckets \X (1..Len(all_tasks)) :
        j \in DOMAIN server_buckets[b].tasks /\ server_buckets[b].tasks[j].dest = d}

RECURSIVE BucketSizeSum(_)
BucketSizeSum(n) == IF n = 0 THEN 0 ELSE Len(server_buckets[n].tasks) + BucketSizeSum(n - 1)

\* C11: once the buckets are formed, every task of the flat list is at
\* exactly one place of exactly one bucket, the bucket sizes sum to the number
\* of tasks, and server_buckets never changes afterwards.
C11_BucketsPartitionTasks ==
    /\ [](server_buckets # <<>> =>
            /\ \A i \in DOMAIN all_tasks : Cardinality(PlacesOf(all_tasks[i].dest)) = 1
            /\ BucketSizeSum(Len(server_buckets)) = Len(all_tasks))
    /\ [][server_buckets # <<>> =>
            (server_buckets' = server_buckets /\ all_tasks' = all_tasks)]_vars

\* The run ended with three tasks in two buckets, one of them holding two.
C11_Witness ==
    /\ mainPc = "done"
    /\ Len(all_tasks) = MaxTasks
    /\ Len(server_buckets) = 2
    /\ \E b \in Buckets : Len(server_buckets[b].tasks) >= 2

\* --------------------------------------------------------------- C12
\* Resolution of host h fails or is unavailable: dig is missing, h is
\* "unknown" (or empty), dig raises, or dig prints no address.
ResolutionFails(h, dig_found, answers) ==
    \/ ~dig_found
    \/ h = "unknown" \/ h = ""
    \/ answers[h].raises
    \/ answers[h].ips = <<>>

\* C12: whatever way resolution fails for a host, the bucketing step puts
\* every task of that host, and no task of another host, into the one bucket
\* keyed (host, "unresolved").
C12_UnresolvedBucketPerHost ==
    [][\A dig_found \in BOOLEAN : \A answers \in [hostnames -> DigOutcomes] :
          MainBucket(dig_found, answers) =>
             \A i \in DOMAIN all_tasks :
                ResolutionFails(all_tasks[i].host, dig_found, answers) =>
                   \E b \in DOMAIN server_buckets' :
                      /\ server_buckets'[b].key = <<all_tasks[i].host, "unresolved">>
                      /\ \A c \in DOMAIN server_buckets' :
                            (\E j \in DOMAIN server_buckets'[c].tasks :
                                server_buckets'[c].tasks[j] = all_tasks[i]) <=> c = b
                      /\ \A j \in DOMAIN server_buckets'[b].tasks :
                            server_buckets'[b].tasks[j].host = all_tasks[i].host]_vars

\* dig was found, and the tasks went to two unresolved buckets: one task of
\* host "unknown" and two tasks that share another unresolved hostname.
C12_Witness ==
    /\ DOMAIN resolved # {}
    /\ \E b, c \in Buckets :
          /\ server_buckets[b].key = <<"unknown", "unresolved">>
          /\ server_buckets[c].key[1] # "unknown"
          /\ server_buckets[c].key[2] = "unresolved"
          /\ Len(server_buckets[c].tasks) = 2

\* --------------------------------------------------------------- C13
\* main returned 0 ("Done.", lines 754-755): the run reports success.
ReportsSuccess == mainPc = "done"
\* main returned 1 ("No log links found.", lines 685-687).
ReportsNoWork == mainPc = "nowork"

\* C13: the run reports success only if some task produced its output; a
\* task whose action raised produced none, so a run in which tasks were
\* discovered and every action raised does not report success.
C13_SuccessNeedsOutput ==
    ReportsSuccess => \E t \in Dests : invoked[t] = 1 /\ success[t]

\* --------------------------------------------------------------- C14
\* This step is an acquire() or a step of release() made by task t.
LimiterCall(t) ==
    /\ taskPc[t] \in {"acquire", "release", "window"}
    /\ taskPc'[t] # taskPc[t]

\* C14: an acquire or release made by a task of one bucket leaves the
\* limiter of every other bucket exactly as it is.
C14_LimitersAreSeparate ==
    [][\A t \in TaskIds : LimiterCall(t) =>
          \A b \in BucketIdx : b # BucketOf(t) => limiter'[b] = limiter[b]]_vars

\* Two buckets run at once: failures lowered the limit of one while the
\* limiter of the other, with a task in flight, is still at its max.
C14_Witness ==
    \E a, b \in BucketIdx :
        /\ a # b /\ HasLimiter(a) /\ HasLimiter(b)
        /\ limiter[a].limit < limiter[a].max
        /\ limiter[b].limit = limiter[b].max
        /\ limiter[b].succ + limiter[b].fail = 0
        /\ \E t \in BucketTasks(b) : taskPc[t] = "action"

\* --------------------------------------------------------------- C15
\* What wrapped_task does around an action that returns, and one that raises.
OkTrace == <<"acquire", "start", "returned", "release_true">>
FailTrace == <<"acquire", "start", "raised", "release_false">>
IsPrefix(a, b) == Len(a) <= Len(b) /\ \A i \in DOMAIN a : a[i] = b[i]

\* C15: with adaptive concurrency enabled, what wrapped_task has done for a
\* task is at every moment a prefix of acquire, action start, action end,
\* release(success), where success is true exactly when the action returned;
\* when the task is done it is the whole sequence, once.
C15_AcquireActionRelease ==
    adaptive_enabled =>
        \A t \in TaskIds :
            /\ IsPrefix(events[t], OkTrace) \/ IsPrefix(events[t], FailTrace)
            /\ taskPc[t] = "done" => events[t] \in {OkTrace, FailTrace}
            /\ taskPc[t] \in {"none", "queued", "acquire"} => events[t] = <<>>

\* Both kinds of task finished in one bucket while its limiter is in use.
C15_Witness ==
    \E b \in BucketIdx :
        /\ HasLimiter(b)
        /\ \E t, u \in BucketTasks(b) :
              /\ taskPc[t] = "done" /\ events[t] = OkTrace
              /\ taskPc[u] = "done" /\ events[u] = FailTrace
        /\ \E v \in BucketTasks(b) : taskPc[v] = "action"

\* --------------------------------------------------------------- C16
\* C16: a run of a task that found its destination present when it began
\* makes no fetch, for every kind of action the providers build.
C16_SecondRunNoFetch ==
    (dl.run >= 2 /\ dl.had) => dl.net = 0

\* --------------------------------------------------------------- C17
\* C17: a run skips its destination only when the content of that file was
\* written completely.
C17_NoPartialTreatedComplete ==
    (dl.kind = "http" /\ dl.pc = "skipped") => dl.fs = "complete"

\* --------------------------------------------------------------- C18
\* C18 (as stated): the report lists the providers in the order they were
\* selected, each with its own task count.
C18_ReportInSelectionOrder ==
    report # <<>> =>
        /\ Len(report) = Len(selections)
        /\ \A i \in DOMAIN report :
              report[i] = <<selections[i], Len(provTasks[selections[i]])>>

\* C18 (amended): the report lists the selected providers by ascending menu
\* number, each with its own task count, whatever the order of selection and
\* of completion.
C18_ReportInNumberOrder ==
    report # <<>> =>
        /\ Len(report) = Len(selections)
        /\ {report[i][1] : i \in DOMAIN report} = Range(selections)
        /\ \A i, j \in DOMAIN report : i < j => report[i][1] < report[j][1]
        /\ \A i \in DOMAIN report : report[i][2] = Len(provTasks[report[i][1]])

\* Provider 2 was selected first and completed first, with another count
\* than provider 1; the report has been printed.
C18_Witness ==
    /\ report # <<>>
    /\ selections = <<2, 1>>
    /\ Len(provTasks[1]) > 0 /\ Len(provTasks[2]) > Len(provTasks[1])
    /\ all_tasks[1].source = 2

\* --------------------------------------------------------------- C19
\* The limiter of bucket b has min = max.
Pinned(b) == HasLimiter(b) /\ limiter[b].min = limiter[b].max

\* C19: a limiter built with min = max keeps limit = max, debt = 0 and
\* available + held = max in every state, and its window check changes
\* nothing but the counters, which it resets when the window is complete.
C19_NoAdaptationWhenPinned ==
    /\ [](\A b \in BucketIdx : Pinned(b) =>
             /\ limiter[b].limit = limiter[b].max
             /\ limiter[b].debt = 0
             /\ Capacity(b) = limiter[b].max)
    /\ [][\A t \in TaskIds : (WindowCheck(t) /\ Pinned(BucketOf(t))) =>
             LET L == limiter[BucketOf(t)]
                 full == L.succ + L.fail >= L.window
             IN limiter'[BucketOf(t)] =
                   [L EXCEPT !.lock = FALSE,
                             !.succ = IF full THEN 0 ELSE @,
                             !.fail = IF full THEN 0 ELSE @]]_vars

\* With min = max above 1, a window that held a failure has been completed
\* and reset while another action is in flight.
C19_Witness ==
    \E b \in BucketIdx :
        /\ Pinned(b)
        /\ limiter[b].max > 1
        /\ limiter[b].succ = 0 /\ limiter[b].fail = 0 /\ ~limiter[b].lock
        /\ \E t \in BucketTasks(b) : taskPc[t] = "done" /\ ~success[t]
        /\ \E t \in BucketTasks(b) : taskPc[t] = "action"

\* --------------------------------------------------------------- C20
\* C20 (as stated): every call has a cap, and the number of links ever
\* submitted to the pool does not exceed it.
C20_SubmittedWithinCap ==
    crawl.pc # "none" =>
        /\ crawl.max_logs # NoCap
        /\ crawl.nsubmitted <= crawl.max_logs

\* C20 (amended): when max_logs is a positive integer the number of links
\* ever submitted does not exceed it; whatever max_logs is, no URL is
\* submitted twice and none of another contest is submitted.
C20_SubmittedWithinGivenCap ==
    crawl.pc # "none" =>
        /\ Truthy(crawl.max_logs) => crawl.nsubmitted <= crawl.max_logs
        /\ crawl.nsubmitted = Cardinality(crawl.submitted)
        /\ crawl.submitted \subseteq Urls

\* The call has returned with max_logs links submitted, more than the seeds
\* it kept: the others were found in logs.
C20_Witness ==
    /\ crawl.pc = "returned"
    /\ Truthy(crawl.max_logs)
    /\ crawl.nsubmitted = crawl.max_logs
    /\ crawl.nseeds < crawl.nsubmitted
    /\ crawl.downloaded = crawl.max_logs

\* --------------------------------------------------------------- C21
\* This step is the part of the release() call of task t up to line 180.
ReleaseEnters(t) ==
    /\ taskPc[t] = "release"
    /\ taskPc'[t] # "release"
    /\ HasLimiter(BucketOf(t))

\* C21: a shrink adjustment takes debt from 0 to 1.  Every release() call
\* counts its outcome; one that finds debt = 1 takes debt to 0, leaves the
\* semaphore and the limit as they are and returns without the window check
\* (counters not reset, lock not kept); one that finds debt = 0 returns a
\* permit to the semaphore and goes on to the window check.  Hence exactly
\* the first release after a shrink withholds its permit.
C21_NextReleaseWithholds ==
    [][\A t \in TaskIds :
          /\ (WindowCheck(t) /\ limiter'[BucketOf(t)].limit < limiter[BucketOf(t)].limit)
                => limiter[BucketOf(t)].debt = 0 /\ limiter'[BucketOf(t)].debt = 1
          /\ ReleaseEnters(t) =>
                /\ limiter'[BucketOf(t)].succ =
                      limiter[BucketOf(t)].succ + (IF success[t] THEN 1 ELSE 0)
                /\ limiter'[BucketOf(t)].fail =
                      limiter[BucketOf(t)].fail + (IF success[t] THEN 0 ELSE 1)
                /\ limiter'[BucketOf(t)].limit = limiter[BucketOf(t)].limit
                /\ limiter'[BucketOf(t)].debt = 0
                /\ IF limiter[BucketOf(t)].debt = 1
                   THEN /\ limiter'[BucketOf(t)].sema = limiter[BucketOf(t)].sema
                        /\ ~limiter'[BucketOf(t)].lock
                        /\ taskPc'[t] = "done"
                   ELSE /\ limiter[BucketOf(t)].debt = 0
                        /\ limiter'[BucketOf(t)].sema = limiter[BucketOf(t)].sema + 1
                        /\ taskPc'[t] = "window"]_vars

\* The second release after a shrink has returned its permit and is at the
\* window check: the first one was counted, consumed the debt and returned
\* no permit, so the capacity is the lowered limit.
C21_Witness ==
    \E b \in BucketIdx :
        /\ HasLimiter(b)
        /\ limiter[b].limit = limiter[b].max - 1
        /\ limiter[b].debt = 0
        /\ limiter[b].lock
        /\ limiter[b].succ + limiter[b].fail = 2
        /\ Capacity(b) = limiter[b].limit

\* --------------------------------------------------------------- C22
\* The counter the release() call of task t does not increment.
OtherCounter(L, t) == IF success[t] THEN L.fail ELSE L.succ

\* C22: a release() call that reaches the window check with
\* succ + fail >= window returns with succ = fail = 0, whatever happened to
\* the limit; a release() call whose total after its increment is below
\* window leaves the counter it did not increment and the limit as they
\* were, in each of its steps.
C22_FullWindowResetsCounters ==
    [][\A t \in TaskIds :
          /\ (WindowCheck(t) /\ CountedTotal(t) >= limiter[BucketOf(t)].window)
                => limiter'[BucketOf(t)].succ = 0 /\ limiter'[BucketOf(t)].fail = 0
          /\ (ReleaseEnters(t)
              /\ limiter'[BucketOf(t)].succ + limiter'[BucketOf(t)].fail
                    < limiter[BucketOf(t)].window)
                => /\ OtherCounter(limiter'[BucketOf(t)], t) = OtherCounter(limiter[BucketOf(t)], t)
                   /\ limiter'[BucketOf(t)].limit = limiter[BucketOf(t)].limit
          /\ (WindowCheck(t) /\ CountedTotal(t) < limiter[BucketOf(t)].window)
                => /\ limiter'[BucketOf(t)].succ = limiter[BucketOf(t)].succ
                   /\ limiter'[BucketOf(t)].fail = limiter[BucketOf(t)].fail
                   /\ limiter'[BucketOf(t)].limit = limiter[BucketOf(t)].limit]_vars

\* Four releases have returned: the first window lowered the limit to min,
\* the second one (the third release consumed the debt) left it there, and
\* the counters are 0 again.
C22_Witness ==
    \E b \in BucketIdx :
        /\ HasLimiter(b)
        /\ limiter[b].min < limiter[b].max
        /\ limiter[b].limit = limiter[b].min
        /\ limiter[b].debt = 0
        /\ ~limiter[b].lock
        /\ limiter[b].succ = 0 /\ limiter[b].fail = 0
        /\ Cardinality({t \in BucketTasks(b) : taskPc[t] = "done"}) = 2 * DefaultWindow

\* --------------------------------------------------------------- C23
\* C23: at most one thread is inside release() at a time; whenever none is,
\* the limiter is in the state that running the release() calls made so far
\* one at a time, in the order they took the lock, produces, and
\* succ + fail is the number of release() calls since the counters were
\* last reset.
C23_ReleasesSerialized ==
    rel # NoRelease =>
        /\ Cardinality({i \in DOMAIN rel.pc : rel.pc[i] \in InRelease}) <= 1
        /\ (\A i \in DOMAIN rel.pc : rel.pc[i] \notin InRelease) =>
              /\ rel.L = rel.serial
              /\ rel.L.succ + rel.L.fail = rel.since

\* One thread stands at the window check of a full window while another has
\* called release() and waits for the lock.
C23_Witness ==
    /\ rel # NoRelease
    /\ \E i, j \in DOMAIN rel.pc :
          /\ rel.pc[i] = "window"
          /\ rel.total[i] >= rel.L.window
          /\ rel.pc[j] = "held"

\* --------------------------------------------------------------- C24
\* Discovery is over and the buckets are formed.
BucketsFormed ==
    /\ \A p \in Selections : provPc[p] = "collected"
    /\ server_buckets # <<>>
    /\ mainPc \in {"start", "join", "done"}

\* C24: a bucket thread exists, and a task is queued, running or has run,
\* only when every selected provider has finished and been collected and
\* the buckets are formed; all_tasks and server_buckets change only in steps
\* of main's discovery and bucketing phase, when no bucket thread has been
\* started and no task has been touched, and never once a thread is started.
C24_ExecutionAfterBucketing ==
    /\ []((\/ \E b \in BucketIdx : bucketPc[b] # "none"
           \/ \E t \in TaskIds : taskPc[t] # "none" \/ invoked[t] > 0)
             => BucketsFormed)
    /\ [][(all_tasks' # all_tasks \/ server_buckets' # server_buckets)
             => /\ mainPc = "discovery"
                /\ \A b \in BucketIdx : bucketPc[b] = "none" /\ bucketPc'[b] = "none"
                /\ \A t \in TaskIds : taskPc[t] = "none" /\ invoked[t] = 0
                /\ UNCHANGED <<taskVars, limiter>>]_vars

\* A task's action is running while main is still starting bucket threads:
\* execution overlaps the loop of lines 745-750, not the bucketing.
C24_Witness ==
    /\ mainPc = "start"
    /\ \E b \in Buckets : bucketPc[b] = "none"
    /\ \E t \in TaskIds : taskPc[t] = "action"
    /\ \E p, q \in Selections : p # q /\ provTasks[p] # <<>> /\ provTasks[q] # <<>>

\* --------------------------------------------------------------- C25
\* up_threshold <= fail / total <= down_threshold.
RateInBand(fail, total, L) ==
    /\ ~RateAbove(fail, total, L.down_threshold)
    /\ ~RateBelow(fail, total, L.up_threshold)

\* C25: the limit of a limiter changes only in the window check of a
\* release() call whose total has reached window, and then by +1 or by -1;
\* a window check of a full window whose failure rate is within
\* [up_threshold, down_threshold] leaves limit, debt and the semaphore as
\* they are (the permit of the call went back on line 180, before the check).
C25_LimitMovesByOneOutsideBand ==
    [][/\ \A b \in BucketIdx :
             (HasLimiter(b) /\ limiter'[b] # None /\ limiter'[b].limit # limiter[b].limit)
                => /\ \E t \in BucketTasks(b) :
                         WindowCheck(t) /\ CountedTotal(t) >= limiter[b].window
                   /\ \/ limiter'[b].limit = limiter[b].limit + 1
                      \/ limiter'[b].limit = limiter[b].limit - 1
       /\ \A t \in TaskIds :
             /\ (/\ WindowCheck(t)
                 /\ CountedTotal(t) >= limiter[BucketOf(t)].window
                 /\ RateInBand(CountedFail(t), CountedTotal(t), limiter[BucketOf(t)]))
                   => /\ limiter'[BucketOf(t)].limit = limiter[BucketOf(t)].limit
                      /\ limiter'[BucketOf(t)].debt = limiter[BucketOf(t)].debt
                      /\ limiter'[BucketOf(t)].sema = limiter[BucketOf(t)].sema
             /\ (taskPc[t] = "release" /\ taskPc'[t] = "window")
                   => /\ limiter'[BucketOf(t)].sema = limiter[BucketOf(t)].sema + 1
                      /\ limiter'[BucketOf(t)].debt = limiter[BucketOf(t)].debt]_vars

\* A window with a failure and a success has been checked by a limiter whose
\* limit could move both ways, the rate being within the band: the limit is
\* where it was and every permit is back.
C25_Witness ==
    \E b \in BucketIdx :
        /\ HasLimiter(b)
        /\ limiter[b].min < limiter[b].limit /\ limiter[b].limit < limiter[b].max
        /\ limiter[b].succ = 0 /\ limiter[b].fail = 0 /\ limiter[b].debt = 0
        /\ ~limiter[b].lock
        /\ limiter[b].window > 1
        /\ LET done == {t \in BucketTasks(b) : taskPc[t] = "done"}
               failed == {t \in done : ~success[t]}
           IN /\ Cardinality(done) = limiter[b].window
              /\ failed # {} /\ failed # done
              /\ RateInBand(Cardinality(failed), Cardinality(done), limiter[b])
        /\ \A t \in BucketTasks(b) : taskPc[t] \in {"done", "queued"}
        /\ limiter[b].sema = limiter[b].limit

\* --------------------------------------------------------------- C26
\* C26: a run of download_file that found its destination present makes no
\* fetch and returns; one that found it absent makes at most `retries`
\* fetches, returns at the first attempt that succeeds (the fetches made are
\* the failed attempts and this one, the file is complete) and raises only
\* when `retries` attempts were made and none completed the file.
C26_DownloadFileRetries ==
    dl.kind = "http" =>
        /\ dl.net <= Retries
        /\ (dl.had /\ dl.pc # "begin") => (dl.pc = "skipped" /\ dl.net = 0)
        /\ dl.pc = "skipped" => dl.had
        /\ dl.pc \in {"opened", "returned"} => dl.net = dl.attempt + 1
        /\ dl.pc = "returned" => (~dl.had /\ dl.fs = "complete")
        /\ dl.pc = "raised" =>
              (~dl.had /\ dl.net = Retries /\ dl.attempt = Retries - 1 /\ dl.fs # "complete")
        /\ (dl.pc = "attempt" /\ ~dl.had) => (dl.net = dl.attempt /\ dl.fs # "complete")

\* download_file returned from its last attempt, the earlier ones having
\* failed.
C26_Witness ==
    /\ dl.kind = "http"
    /\ dl.pc = "returned"
    /\ ~dl.had
    /\ dl.net = Retries
    /\ dl.fs = "complete"

\* --------------------------------------------------------------- C27
\* A task of bucket b waits in acquire() while no task holds a permit.
BlockedWithNothingHeld(b) ==
    /\ Held(b) = {}
    /\ ~CanAcquire(limiter[b])

\* C27: in every state permits available + permits held = limit + debt, so
\* the permits held never exceed limit + debt, and (min being at least 1) no
\* task waits in acquire() while no permit is held.
C27_PermitsMatchLimit ==
    \A b \in BucketIdx : HasLimiter(b) =>
        /\ Capacity(b) = limiter[b].limit + limiter[b].debt
        /\ Cardinality(Held(b)) <= limiter[b].limit + limiter[b].debt
        /\ limiter[b].min >= 1
        /\ ~BlockedWithNothingHeld(b)

\* After a shrink, with the debt outstanding, limit + debt permits are held
\* and none is available.
C27_Witness ==
    \E b \in BucketIdx :
        /\ HasLimiter(b)
        /\ limiter[b].debt = 1
        /\ ~limiter[b].lock
        /\ limiter[b].sema = 0
        /\ Cardinality(Held(b)) = limiter[b].limit + 1
        /\ \A t \in BucketTasks(b) : taskPc[t] # "window"

\* --------------------------------------------------------------- C28
\* C28: debt is 0 or 1 and limit + debt is at most max in every state; a
\* window check runs only in a release() that found debt = 0, and it leaves
\* debt at 0 unless it lowers the limit, by 1, which takes debt to 1; a
\* release() that finds debt = 1 changes no limit.  Hence no adjustment
\* happens while debt = 1, and two shrinks are separated by a release that
\* withholds its permit.
C28_DebtAtMostOne ==
    /\ [](\A b \in BucketIdx : HasLimiter(b) =>
             /\ limiter[b].debt \in {0, 1}
             /\ limiter[b].limit + limiter[b].debt <= limiter[b].max
             /\ limiter[b].lock => limiter[b].debt = 0)
    /\ [][\A t \in TaskIds :
             /\ WindowCheck(t) =>
                   /\ limiter[BucketOf(t)].debt = 0
                   /\ IF limiter'[BucketOf(t)].limit < limiter[BucketOf(t)].limit
                      THEN /\ limiter'[BucketOf(t)].limit = limiter[BucketOf(t)].limit - 1
                           /\ limiter'[BucketOf(t)].debt = 1
                      ELSE limiter'[BucketOf(t)].debt = 0
             /\ (ReleaseEnters(t) /\ limiter[BucketOf(t)].debt = 1) =>
                   /\ taskPc'[t] = "done"
                   /\ limiter'[BucketOf(t)].limit = limiter[BucketOf(t)].limit]_vars

\* The debt of a shrink is outstanding and a task whose action raised is
\* about to call release(): its failure is counted, no window is checked.
C28_Witness ==
    \E b \in BucketIdx :
        /\ HasLimiter(b)
        /\ limiter[b].debt = 1
        /\ limiter[b].limit + limiter[b].debt = limiter[b].max
        /\ ~limiter[b].lock
        /\ \E t \in BucketTasks(b) : taskPc[t] = "release" /\ ~success[t]
        /\ \A t \in BucketTasks(b) : taskPc[t] \in {"release", "queued", "done"}

\* --------------------------------------------------------------- C29
\* C29: whatever integers --workers and --min-workers are, a limiter that
\* build_limiter has just made has max = workers (1 when workers < 1),
\* min = min_workers brought into [1, max], and limit = max with that many
\* permits; every limiter has 1 <= min <= limit <= max; and a step that
\* raises a limit starts below max, that is after an earlier decrease, for
\* which a task of the bucket must have failed.
C29_BuiltAtMaxFirstMoveDown ==
    /\ [](\A b \in BucketIdx : HasLimiter(b) =>
             /\ 1 <= limiter[b].min
             /\ limiter[b].min <= limiter[b].limit
             /\ limiter[b].limit <= limiter[b].max
             /\ limiter[b].max = (IF workers >= 1 THEN workers ELSE 1)
             /\ limiter[b].min = (IF min_workers < 1 THEN 1
                                  ELSE IF min_workers > limiter[b].max THEN limiter[b].max
                                  ELSE min_workers))
    /\ [][\A b \in BucketIdx :
             /\ (~HasLimiter(b) /\ limiter'[b] # None) =>
                   /\ limiter'[b].limit = limiter'[b].max
                   /\ limiter'[b].sema = limiter'[b].max
                   /\ limiter'[b].debt = 0
             /\ (HasLimiter(b) /\ limiter'[b] # None /\ limiter'[b].limit > limiter[b].limit) =>
                   /\ limiter[b].limit < limiter[b].max
                   /\ \E t \in BucketTasks(b) : taskPc[t] = "done" /\ ~success[t]]_vars

\* --min-workers was below 1 and taken as 1: the limit went down in the
\* first window and is back at max after the second.
C29_Witness ==
    \E b \in BucketIdx :
        /\ HasLimiter(b)
        /\ min_workers < 1
        /\ limiter[b].min = 1
        /\ limiter[b].min < limiter[b].max
        /\ limiter[b].limit = limiter[b].max
        /\ limiter[b].succ = 0 /\ limiter[b].fail = 0 /\ ~limiter[b].lock
        /\ Cardinality({t \in BucketTasks(b) : taskPc[t] = "done"}) = 2 * DefaultWindow
        /\ \E t \in BucketTasks(b) : taskPc[t] = "done" /\ ~success[t]

\* --------------------------------------------------------------- C30
\* C30: in every state of a call of download_contest_logs, no URL has been
\* submitted twice (nor waits in pending twice, or again after submission),
\* every submitted URL is one of the contest, at most `workers` futures are
\* in the futures dict, the call waits only while a future is outstanding,
\* and it has returned only with pending and futures empty, returning the
\* number of links submitted.
C30_CrawlSubmitsOnce ==
    crawl.pc # "none" =>
        /\ crawl.nsubmitted = Cardinality(crawl.submitted)
        /\ Cardinality(Range(crawl.pending)) = Len(crawl.pending)
        /\ Range(crawl.pending) \cap crawl.submitted = {}
        /\ crawl.submitted \cup Range(crawl.pending) \subseteq Urls
        /\ Cardinality(CrawlFutures) <= crawl.workers
        /\ crawl.pc \in {"wait", "harvest"} => CrawlFutures # {}
        /\ crawl.pc = "returned" =>
              /\ crawl.pending = <<>>
              /\ CrawlFutures = {}
              /\ crawl.downloaded = crawl.nsubmitted

\* An uncapped call with one seed and a pool of more than one worker has
\* returned after submitting every URL of the contest, all but the seed
\* found in logs.
C30_Witness ==
    /\ crawl.pc = "returned"
    /\ crawl.max_logs = NoCap
    /\ crawl.nseeds = 1
    /\ crawl.workers > 1
    /\ crawl.submitted = Urls
    /\ crawl.downloaded = MaxUrls

====
